---- MODULE Spec2Model ----
(***************************************************************************)
(* Benchmark post-processing scripts: the percentile computation           *)
(* (calculate_percentile, data_compare_dp.py) and the replica-group        *)
(* aggregation that feeds it (process_grouped_files).                      *)
(*                                                                         *)
(* Python computes with binary64 floats.  Numbers are modelled as binary64 *)
(* values: sign, 53-bit significand, exponent, every operation rounded to  *)
(* nearest, ties to even.  Significands are naturals held as little-endian *)
(* sequences of 15-bit limbs, because they do not fit a machine integer of *)
(* the model checker.  Infinities, NaN and subnormals are outside the      *)
(* bounded values of this model.                                           *)
(***************************************************************************)
EXTENDS Integers, Sequences, FiniteSets, TLC

(***************************************************************************)
(* Naturals of arbitrary size: <<>> is 0, no leading (high) zero limb.     *)
(***************************************************************************)
LimbBits == 15

Base == 2 ^ LimbBits

Pow2Int(k) == 2 ^ k

RECURSIVE BNorm(_)
BNorm(a) ==
    IF a = <<>> THEN <<>>
    ELSE IF a[Len(a)] = 0 THEN BNorm(SubSeq(a, 1, Len(a) - 1))
    ELSE a

RECURSIVE BFromInt(_)
BFromInt(n) ==
    IF n = 0 THEN <<>> ELSE <<n % Base>> \o BFromInt(n \div Base)

RECURSIVE BToInt(_)
BToInt(a) ==
    IF a = <<>> THEN 0 ELSE Head(a) + Base * BToInt(Tail(a))

RECURSIVE BAddC(_, _, _)
BAddC(a, b, c) ==
    IF a = <<>> /\ b = <<>> THEN (IF c = 0 THEN <<>> ELSE <<c>>)
    ELSE LET x == IF a = <<>> THEN 0 ELSE Head(a)
             y == IF b = <<>> THEN 0 ELSE Head(b)
             s == x + y + c
         IN  <<s % Base>> \o
             BAddC(IF a = <<>> THEN <<>> ELSE Tail(a),
                   IF b = <<>> THEN <<>> ELSE Tail(b),
                   s \div Base)

BAdd(a, b) == BAddC(a, b, 0)

RECURSIVE BSubB(_, _, _)
BSubB(a, b, c) ==
    IF a = <<>> THEN <<>>
    ELSE LET y == IF b = <<>> THEN 0 ELSE Head(b)
             d == Head(a) - y - c
         IN  <<IF d < 0 THEN d + Base ELSE d>> \o
             BSubB(Tail(a), IF b = <<>> THEN <<>> ELSE Tail(b),
                   IF d < 0 THEN 1 ELSE 0)

\* a - b for a >= b
BSub(a, b) == BNorm(BSubB(a, b, 0))

RECURSIVE BCmpTop(_, _, _)
BCmpTop(a, b, i) ==
    IF i = 0 THEN 0
    ELSE IF a[i] > b[i] THEN 1
    ELSE IF a[i] < b[i] THEN -1
    ELSE BCmpTop(a, b, i - 1)

\* -1, 0, 1 as a < b, a = b, a > b
BCmp(a, b) ==
    IF Len(a) > Len(b) THEN 1
    ELSE IF Len(a) < Len(b) THEN -1
    ELSE BCmpTop(a, b, Len(a))

RECURSIVE BMulLimbC(_, _, _)
BMulLimbC(a, d, c) ==
    IF a = <<>> THEN (IF c = 0 THEN <<>> ELSE <<c>>)
    ELSE LET s == Head(a) * d + c
         IN  <<s % Base>> \o BMulLimbC(Tail(a), d, s \div Base)

\* a * d for a limb d
BMulLimb(a, d) == IF d = 0 THEN <<>> ELSE BMulLimbC(a, d, 0)

RECURSIVE BMul(_, _)
BMul(a, b) ==
    IF a = <<>> \/ b = <<>> THEN <<>>
    ELSE LET rest == BMul(Tail(a), b)
         IN  BAdd(BMulLimb(b, Head(a)),
                  IF rest = <<>> THEN <<>> ELSE <<0>> \o rest)

\* a * 2^k
BShl(a, k) ==
    IF a = <<>> THEN <<>>
    ELSE [i \in 1..(k \div LimbBits) |-> 0] \o BMulLimb(a, Pow2Int(k % LimbBits))

\* quotient and remainder of a by a limb d > 0, from the high limb down
RECURSIVE BDivLimbR(_, _, _, _)
BDivLimbR(a, d, i, r) ==
    IF i = 0 THEN [q |-> <<>>, r |-> r]
    ELSE LET cur  == r * Base + a[i]
             low  == BDivLimbR(a, d, i - 1, cur % d)
         IN  [q |-> low.q \o <<cur \div d>>, r |-> low.r]

BDivLimb(a, d) ==
    LET res == BDivLimbR(a, d, Len(a), 0)
    IN  [q |-> BNorm(res.q), r |-> res.r]

\* floor(a / 2^k)
BShr(a, k) ==
    LET w == k \div LimbBits
    IN  IF w >= Len(a) THEN <<>>
        ELSE BDivLimb(SubSeq(a, w + 1, Len(a)), Pow2Int(k % LimbBits)).q

RECURSIVE IntBitLen(_)
IntBitLen(n) == IF n = 0 THEN 0 ELSE 1 + IntBitLen(n \div 2)

BBitLen(a) ==
    IF a = <<>> THEN 0 ELSE (Len(a) - 1) * LimbBits + IntBitLen(a[Len(a)])

BOdd(a) == a # <<>> /\ Head(a) % 2 = 1

(***************************************************************************)
(* binary64 values: [sgn, man, exp] stands for sgn * man * 2^exp, with man *)
(* of exactly Precision bits; zero is FZero.                               *)
(***************************************************************************)
Precision == 53

GuardBits == 30

FZero == [sgn |-> 0, man |-> <<>>, exp |-> 0]

\* sg * q * 2^e for q of Precision or Precision + 1 bits, the latter a
\* power of two (a carry out of the rounding)
FCarry(sg, q, e) ==
    IF BBitLen(q) > Precision
    THEN [sgn |-> sg, man |-> BShr(q, 1), exp |-> e + 1]
    ELSE [sgn |-> sg, man |-> q, exp |-> e]

\* n = q * 2^k + r with q of Precision bits: to nearest by r against the
\* half 2^(k-1), a tie to the even neighbour unless sticky
FNearest(sg, n, q, k, e, sticky) ==
    LET c == BCmp(BSub(n, BShl(q, k)), BShl(<<1>>, k - 1))
    IN  FCarry(sg,
               IF c >= (IF sticky \/ BOdd(q) THEN 0 ELSE 1) THEN BAdd(q, <<1>>) ELSE q,
               e + k)

\* n of len bits
FRoundBits(sg, n, e, sticky, len) ==
    IF len <= Precision
    THEN [sgn |-> sg, man |-> BShl(n, Precision - len), exp |-> e - (Precision - len)]
    ELSE FNearest(sg, n, BShr(n, len - Precision), len - Precision, e, sticky)

\* sg * (n + d) * 2^e rounded to nearest, ties to even; 0 <= d < 1 and
\* d # 0 iff sticky (sticky only with more than Precision bits in n)
FRound(sg, n, e, sticky) ==
    IF n = <<>> THEN FZero ELSE FRoundBits(sg, n, e, sticky, BBitLen(n))

\* float(i) for a Python int i
FromInt(i) ==
    IF i = 0 THEN FZero
    ELSE FRound(IF i < 0 THEN -1 ELSE 1, BFromInt(IF i < 0 THEN -i ELSE i), 0, FALSE)

FNeg(x) == [x EXCEPT !.sgn = -x.sgn]

\* (xs * xm + ys * ym) * 2^e for signs xs, ys and magnitudes xm, ym
FAddAligned(xs, xm, ys, ym, e) ==
    LET c == BCmp(xm, ym)
    IN  FRound(IF xs = ys \/ c = 1 THEN xs ELSE ys,
               IF xs = ys THEN BAdd(xm, ym)
               ELSE IF c = 1 THEN BSub(xm, ym)
               ELSE BSub(ym, xm),
               e, FALSE)

\* x + y
FAdd(x, y) ==
    IF x.sgn = 0 THEN y
    ELSE IF y.sgn = 0 THEN x
    ELSE LET e == IF x.exp < y.exp THEN x.exp ELSE y.exp
         IN  FAddAligned(x.sgn, BShl(x.man, x.exp - e),
                         y.sgn, BShl(y.man, y.exp - e), e)

\* x - y
FSub(x, y) == FAdd(x, FNeg(y))

\* x * y
FMul(x, y) ==
    IF x.sgn = 0 \/ y.sgn = 0 THEN FZero
    ELSE FRound(x.sgn * y.sgn, BMul(x.man, y.man), x.exp + y.exp, FALSE)

\* sg * (qr.q + qr.r / d) * 2^e for a quotient and remainder by d
FQuotient(sg, qr, e) == FRound(sg, qr.q, e, qr.r # 0)

\* x / d for a Python int d with 0 < d < Base
FDivInt(x, d) ==
    IF x.sgn = 0 THEN FZero
    ELSE FQuotient(x.sgn, BDivLimb(BShl(x.man, GuardBits), d), x.exp - GuardBits)

\* -1, 0, 1 as x < y, x = y, x > y
FCmp(x, y) ==
    IF x.sgn # y.sgn THEN (IF x.sgn < y.sgn THEN -1 ELSE 1)
    ELSE IF x.sgn = 0 THEN 0
    ELSE LET c == IF x.exp # y.exp THEN (IF x.exp < y.exp THEN -1 ELSE 1)
                  ELSE BCmp(x.man, y.man)
         IN  x.sgn * c

FLeq(x, y) == FCmp(x, y) <= 0

\* floor(x) for x with a negative exponent and q = floor(|x|)
FloorOfQuotient(x, q) ==
    IF x.sgn = 1 THEN BToInt(q)
    ELSE IF BShl(q, -x.exp) = x.man THEN -BToInt(q)
    ELSE -(BToInt(q) + 1)

\* int(np.floor(x))
FloorInt(x) ==
    IF x.sgn = 0 THEN 0
    ELSE IF x.exp >= 0 THEN x.sgn * BToInt(BShl(x.man, x.exp))
    ELSE FloorOfQuotient(x, BShr(x.man, -x.exp))

\* the binary64 value of the decimal literal k/d (literals are correctly rounded)
Dec(k, d) == FDivInt(FromInt(k), d)

(***************************************************************************)
(* Python values and list operations                                       *)
(***************************************************************************)
None == [tag |-> "None"]

IndexError == [tag |-> "IndexError"]

Float(x) == [tag |-> "float", v |-> x]

NoCall == [tag |-> "NoCall"]

\* s with x put after every element that is not greater than x
RECURSIVE InsertSorted(_, _)
InsertSorted(s, x) ==
    IF s = <<>> THEN <<x>>
    ELSE IF FCmp(x, Head(s)) < 0 THEN <<x>> \o s
    ELSE <<Head(s)>> \o InsertSorted(Tail(s), x)

\* a faulty variant: sorted(d, reverse=True)
RECURSIVE sortedDescending(_)
sortedDescending(d) ==
    IF d = <<>> THEN <<>>
    ELSE LET rest == sortedDescending(SubSeq(d, 1, Len(d) - 1))
             x    == d[Len(d)]
             k    == Cardinality({i \in 1..Len(rest) : FCmp(rest[i], x) >= 0})
         IN  SubSeq(rest, 1, k) \o <<x>> \o SubSeq(rest, k + 1, Len(rest))

\* a faulty variant: the sort is forgotten
sortedForgotten(d) == d

\* sorted(d): a new list, ascending, stable
RECURSIVE sorted(_)
sorted(d) ==
    IF d = <<>> THEN <<>>
    ELSE InsertSorted(sorted(SubSeq(d, 1, Len(d) - 1)), d[Len(d)])

\* s[i] of a Python list: 0-based, a negative i counts from the end
Subscript(s, i) ==
    IF 0 <= i /\ i < Len(s) THEN Float(s[i + 1])
    ELSE IF -Len(s) <= i /\ i < 0 THEN Float(s[Len(s) + i + 1])
    ELSE IndexError

(***************************************************************************)
(* calculate_percentile(data, percentile)                                  *)
(***************************************************************************)
\* a faulty variant: index = n * (percentile / 100)
RankIndexOffByOne(n, p) == FMul(FromInt(n), FDivInt(p, 100))

\* index = (n - 1) * (percentile / 100)
RankIndex(n, p) == FMul(FromInt(n - 1), FDivInt(p, 100))

\* a faulty variant: floor_index + 1 <= n
InterpolateInclusiveBound(sorted_data, p) ==
    LET n           == Len(sorted_data)
        index       == FMul(FromInt(n - 1), FDivInt(p, 100))
        floor_index == FloorInt(index)
        fractional  == FSub(index, FromInt(floor_index))
        lo          == Subscript(sorted_data, floor_index)
        hi          == Subscript(sorted_data, floor_index + 1)
    IN  IF floor_index + 1 <= n
        THEN IF lo = IndexError \/ hi = IndexError THEN IndexError
             ELSE Float(FAdd(lo.v, FMul(fractional, FSub(hi.v, lo.v))))
        ELSE lo

\* a faulty variant: fractional = floor_index + 1 - index
InterpolateReversedWeight(sorted_data, p) ==
    LET n           == Len(sorted_data)
        index       == FMul(FromInt(n - 1), FDivInt(p, 100))
        floor_index == FloorInt(index)
        fractional  == FSub(FromInt(floor_index + 1), index)
        lo          == Subscript(sorted_data, floor_index)
        hi          == Subscript(sorted_data, floor_index + 1)
    IN  IF floor_index + 1 < n
        THEN IF lo = IndexError \/ hi = IndexError THEN IndexError
             ELSE Float(FAdd(lo.v, FMul(fractional, FSub(hi.v, lo.v))))
        ELSE lo

\* a faulty variant: fractional = round(index - floor_index, 1)
InterpolateRoundedFrac(sorted_data, p) ==
    LET n           == Len(sorted_data)
        index       == FMul(FromInt(n - 1), FDivInt(p, 100))
        floor_index == FloorInt(index)
        exact_frac  == FSub(index, FromInt(floor_index))
        fractional  == Dec(FloorInt(FAdd(FMul(exact_frac, FromInt(10)), Dec(5, 10))), 10)
        lo          == Subscript(sorted_data, floor_index)
        hi          == Subscript(sorted_data, floor_index + 1)
    IN  IF floor_index + 1 < n
        THEN IF lo = IndexError \/ hi = IndexError THEN IndexError
             ELSE Float(FAdd(lo.v, FMul(fractional, FSub(hi.v, lo.v))))
        ELSE lo

\* lines 25-28: lo is sorted_data[floor_index], hi is sorted_data[floor_index + 1]
Between(lo, hi, fractional) ==
    IF lo = IndexError \/ hi = IndexError THEN IndexError
    ELSE Float(FAdd(lo.v, FMul(fractional, FSub(hi.v, lo.v))))

\* lines 23-28
InterpolateFrom(sorted_data, index, floor_index) ==
    IF floor_index + 1 < Len(sorted_data)
    THEN Between(Subscript(sorted_data, floor_index),
                 Subscript(sorted_data, floor_index + 1),
                 FSub(index, FromInt(floor_index)))
    ELSE Subscript(sorted_data, floor_index)

\* lines 22-28
InterpolateAt(sorted_data, index) ==
    InterpolateFrom(sorted_data, index, FloorInt(index))

\* lines 20-28, on the sorted copy
Interpolate(sorted_data, p) ==
    InterpolateAt(sorted_data, RankIndex(Len(sorted_data), p))

\* a faulty variant: an empty list gives 0
calculate_percentileEmptyIsZero(d, p) ==
    IF d = <<>> THEN Float(FZero)
    ELSE LET sorted_data == sorted(d)
             n           == Len(sorted_data)
             index       == FMul(FromInt(n - 1), FDivInt(p, 100))
             floor_index == FloorInt(index)
             fractional  == FSub(index, FromInt(floor_index))
             lo          == Subscript(sorted_data, floor_index)
             hi          == Subscript(sorted_data, floor_index + 1)
         IN  IF floor_index + 1 < n
             THEN IF lo = IndexError \/ hi = IndexError THEN IndexError
                  ELSE Float(FAdd(lo.v, FMul(fractional, FSub(hi.v, lo.v))))
             ELSE lo

\* every caller passes a list, so isinstance(data, list) holds and the
\* guard of line 17 is the emptiness test
calculate_percentile(d, p) ==
    IF d = <<>> THEN None ELSE Interpolate(sorted(d), p)

\* a faulty variant: data.sort() in place of sorted(data)
ArgumentAfterCallSortInPlace(d) == sorted(d)

\* the caller's list once the call has returned: sorted() copies, and no
\* statement of the function assigns to data or to an element of it
ArgumentAfterCall(d) == d

(***************************************************************************)
(* extract_vllm_metrics(json_file).  A result file is [readable, ...] with *)
(* the parsed JSON fields as Python values: None, Float(x), Bool(b), Str,  *)
(* List(items).                                                            *)
(***************************************************************************)
Str == [tag |-> "str"]

Bool(b) == [tag |-> "bool", b |-> b]

List(items) == [tag |-> "list", items |-> items]

\* isinstance(t, (int, float)): bool is a subclass of int
IsNumber(t) == t.tag \in {"float", "bool"}

\* the value a number takes in arithmetic
NumberValue(t) ==
    IF t.tag = "bool" THEN (IF t.b THEN FromInt(1) ELSE FZero) ELSE t.v

\* [t * 1000 for t in xs if isinstance(t, (int, float))]
RECURSIVE ToMilliseconds(_)
ToMilliseconds(xs) ==
    IF xs = <<>> THEN <<>>
    ELSE (IF IsNumber(Head(xs))
          THEN <<FMul(NumberValue(Head(xs)), FromInt(1000))>>
          ELSE <<>>) \o ToMilliseconds(Tail(xs))

\* lines 47-52: flatten one level, convert to ms
RECURSIVE FlattenItls(_)
FlattenItls(items) ==
    IF items = <<>> THEN <<>>
    ELSE LET item == Head(items)
         IN  (IF item.tag = "list" THEN ToMilliseconds(item.items)
              ELSE IF IsNumber(item) THEN <<FMul(NumberValue(item), FromInt(1000))>>
              ELSE <<>>) \o FlattenItls(Tail(items))

extract_vllm_metrics(f) ==
    IF ~f.readable THEN None
    ELSE IF f.request_rate = None \/ ~IsNumber(f.request_rate) THEN None
    ELSE [tag                |-> "metrics",
          mean_ttft_ms       |-> f.mean_ttft_ms,
          mean_tpot_ms       |-> f.mean_tpot_ms,
          request_rate       |-> f.request_rate,
          request_throughput |-> f.request_throughput,
          raw_ttfts          |-> ToMilliseconds(f.ttfts),
          raw_tpots          |-> ToMilliseconds(f.tpots),
          raw_itls           |-> FlattenItls(f.itls)]

(***************************************************************************)
(* process_grouped_files: the files of one base-name group                 *)
(***************************************************************************)
TypeError == [tag |-> "TypeError"]

Skipped == [tag |-> "skipped"]

\* a faulty variant: group_raw = file_metrics[...] in place of group_raw.extend(...)
ExtendOverwrites(group_raw, file_raw) == file_raw

\* group_raw.extend(file_raw)
Extend(group_raw, file_raw) == group_raw \o file_raw

\* a faulty variant: the sum keeps only its last term
PySumLastOnly(xs) ==
    IF xs = <<>> THEN FZero ELSE NumberValue(xs[Len(xs)])

\* sum(xs) of numbers, from the int 0; the sums of this model are exact
RECURSIVE PySum(_)
PySum(xs) ==
    IF xs = <<>> THEN FZero
    ELSE FAdd(PySum(SubSeq(xs, 1, Len(xs) - 1)), NumberValue(xs[Len(xs)]))

\* [m[key] for m in group_basic if m[key] is not None]
RECURSIVE NotNone(_)
NotNone(xs) ==
    IF xs = <<>> THEN <<>>
    ELSE (IF Head(xs) = None THEN <<>> ELSE <<Head(xs)>>) \o NotNone(Tail(xs))

\* a faulty variant: sum(valid) if valid else None
MeanOrNoneUndivided(valid) ==
    IF valid = <<>> THEN None
    ELSE IF \E i \in 1..Len(valid) : ~IsNumber(valid[i]) THEN TypeError
    ELSE Float(PySum(valid))

\* sum(valid) / len(valid) if valid else None
MeanOrNone(valid) ==
    IF valid = <<>> THEN None
    ELSE IF \E i \in 1..Len(valid) : ~IsNumber(valid[i]) THEN TypeError
    ELSE Float(FDivInt(PySum(valid), Len(valid)))

P99 == FromInt(99)

\* lines 155-174, for a non-empty group_basic
AggregatedRow(group_basic, raw_ttfts, raw_tpots, raw_itls) ==
    LET valid_mean_ttft == NotNone([i \in 1..Len(group_basic) |-> group_basic[i].mean_ttft_ms])
        valid_mean_tpot == NotNone([i \in 1..Len(group_basic) |-> group_basic[i].mean_tpot_ms])
        throughputs     == [i \in 1..Len(group_basic) |-> group_basic[i].request_throughput]
        mean_ttft       == MeanOrNone(valid_mean_ttft)
        mean_tpot       == MeanOrNone(valid_mean_tpot)
    IN  IF \E i \in 1..Len(throughputs) : ~IsNumber(throughputs[i]) THEN TypeError
        ELSE IF mean_ttft = TypeError \/ mean_tpot = TypeError THEN TypeError
        ELSE [tag                |-> "row",
              request_rate       |-> group_basic[1].request_rate,
              request_throughput |-> Float(PySum(throughputs)),
              mean_ttft_ms       |-> mean_ttft,
              mean_tpot_ms       |-> mean_tpot,
              p99_ttft_ms        |-> calculate_percentile(raw_ttfts, P99),
              p99_tpot_ms        |-> calculate_percentile(raw_tpots, P99),
              p99_itl_ms         |-> calculate_percentile(raw_itls, P99)]

(***************************************************************************)
(* data_collect_dp.py: the scalar-only grouped aggregator                  *)
(***************************************************************************)
\* extract_vllm_metrics of data_collect_dp.py
collect_dp_extract_vllm_metrics(f) ==
    IF ~f.readable THEN None
    ELSE IF f.request_rate = None \/ ~IsNumber(f.request_rate) THEN None
    ELSE [tag                |-> "metrics",
          mean_ttft_ms       |-> f.mean_ttft_ms,
          mean_tpot_ms       |-> f.mean_tpot_ms,
          request_rate       |-> f.request_rate,
          request_throughput |-> f.request_throughput]

\* lines 53-57: the metrics of the files of a group that extract accepts
RECURSIVE collect_dp_group_data(_)
collect_dp_group_data(files) ==
    IF files = <<>> THEN <<>>
    ELSE (IF collect_dp_extract_vllm_metrics(Head(files)) # None
          THEN <<collect_dp_extract_vllm_metrics(Head(files))>>
          ELSE <<>>) \o collect_dp_group_data(Tail(files))

\* sum(xs) of Python values: TypeError unless every one is a number
SumOrTypeError(xs) ==
    IF \E i \in 1..Len(xs) : ~IsNumber(xs[i]) THEN TypeError
    ELSE Float(PySum(xs))

\* lines 67-68: sum(the values that are not None) / len(group_data)
collect_dp_mean(valid, n) ==
    IF \E i \in 1..Len(valid) : ~IsNumber(valid[i]) THEN TypeError
    ELSE Float(FDivInt(PySum(valid), n))

\* the dict of lines 63-69 from its four values, any of which may have raised
collect_dp_row(rate, throughput, mean_ttft, mean_tpot) ==
    IF TypeError \in {rate, throughput, mean_ttft, mean_tpot} THEN TypeError
    ELSE [tag                |-> "row",
          request_rate       |-> rate,
          request_throughput |-> throughput,
          mean_ttft_ms       |-> mean_ttft,
          mean_tpot_ms       |-> mean_tpot]

\* lines 59-70, for the group_data of one group
collect_dp_aggregated(group_data) ==
    IF group_data = <<>> THEN Skipped
    ELSE collect_dp_row(
             SumOrTypeError([i \in 1..Len(group_data) |-> group_data[i].request_rate]),
             SumOrTypeError([i \in 1..Len(group_data) |-> group_data[i].request_throughput]),
             collect_dp_mean(NotNone([i \in 1..Len(group_data) |-> group_data[i].mean_ttft_ms]),
                             Len(group_data)),
             collect_dp_mean(NotNone([i \in 1..Len(group_data) |-> group_data[i].mean_tpot_ms]),
                             Len(group_data)))

(***************************************************************************)
(* Directories.  glob gives a list of files, each [name, content]; a name  *)
(* is the sequence of its parts, "-" among them.  A table is a DataFrame   *)
(* by its rows.                                                            *)
(***************************************************************************)
KeyError == [tag |-> "KeyError"]

NaN == [tag |-> "NaN"]

Table(rows) == [tag |-> "table", rows |-> rows]

\* a faulty variant: filename.split("-", 1)[0]
base_nameAtFirstDash(filename) ==
    IF \E i \in 1..Len(filename) : filename[i] = "-"
    THEN SubSeq(filename, 1,
                (CHOOSE i \in 1..Len(filename) :
                    filename[i] = "-" /\ \A j \in 1..(i - 1) : filename[j] # "-") - 1)
    ELSE filename

\* filename.rsplit("-", 1)[0] if "-" in filename else filename
base_name(filename) ==
    IF \E i \in 1..Len(filename) : filename[i] = "-"
    THEN SubSeq(filename, 1,
                (CHOOSE i \in 1..Len(filename) :
                    filename[i] = "-" /\ \A j \in (i + 1)..Len(filename) : filename[j] # "-") - 1)
    ELSE filename

\* file_groups[key].append(file), a new key going last
AppendToGroup(groups, key, file) ==
    IF \E i \in 1..Len(groups) : groups[i].base_name = key
    THEN [i \in 1..Len(groups) |->
             IF groups[i].base_name = key
             THEN [groups[i] EXCEPT !.files = Append(@, file)]
             ELSE groups[i]]
    ELSE Append(groups, [base_name |-> key, files |-> <<file>>])

\* the defaultdict after the loop over json_files, keys in insertion order
RECURSIVE FileGroups(_)
FileGroups(json_files) ==
    IF json_files = <<>> THEN <<>>
    ELSE AppendToGroup(FileGroups(SubSeq(json_files, 1, Len(json_files) - 1)),
                       base_name(json_files[Len(json_files)].name),
                       json_files[Len(json_files)])

\* rows with row put after every row whose request_rate is not greater
RECURSIVE InsertByRate(_, _)
InsertByRate(rows, row) ==
    IF rows = <<>> THEN <<row>>
    ELSE IF FCmp(NumberValue(row.request_rate), NumberValue(Head(rows).request_rate)) < 0
         THEN <<row>> \o rows
    ELSE <<Head(rows)>> \o InsertByRate(Tail(rows), row)

\* a faulty variant: the rows stay in the order of glob
SortByRateForgotten(rows) == rows

RECURSIVE SortByRate(_)
SortByRate(rows) ==
    IF rows = <<>> THEN <<>>
    ELSE InsertByRate(SortByRate(SubSeq(rows, 1, Len(rows) - 1)), rows[Len(rows)])

\* the columns that hold text
LabelColumns == {"filename", "dataset"}

\* a value of a column of a frame: None becomes NaN in a column that holds
\* a float, and stays None in a column of None only
AsCell(x, has_float) == IF x = None /\ has_float THEN NaN ELSE x

\* pd.DataFrame(rows) for a list of dicts of the same keys
DataFrame(rows) ==
    [i \in 1..Len(rows) |->
        [column \in DOMAIN rows[i] |->
            IF column \in LabelColumns THEN rows[i][column]
            ELSE AsCell(rows[i][column],
                        \E j \in 1..Len(rows) : rows[j][column].tag \in {"float", "NaN"})]]

\* pd.DataFrame(rows).sort_values(by='request_rate', ascending=True)
\* .reset_index(drop=True): a frame made from no rows has no columns
sort_values(rows) ==
    IF rows = <<>> THEN KeyError ELSE Table(SortByRate(DataFrame(rows)))

\* lines 93-104 for one file: None for a file extract_vllm_metrics rejects
StandardRow(file, file_metrics, target_dir) ==
    IF file_metrics = None THEN None
    ELSE [filename           |-> file.name,
          request_rate       |-> file_metrics.request_rate,
          request_throughput |-> file_metrics.request_throughput,
          mean_ttft_ms       |-> file_metrics.mean_ttft_ms,
          mean_tpot_ms       |-> file_metrics.mean_tpot_ms,
          p99_ttft_ms        |-> calculate_percentile(file_metrics.raw_ttfts, P99),
          p99_tpot_ms        |-> calculate_percentile(file_metrics.raw_tpots, P99),
          p99_itl_ms         |-> calculate_percentile(file_metrics.raw_itls, P99),
          dataset            |-> target_dir]

\* all_metrics of lines 91-104
RECURSIVE StandardRows(_, _)
StandardRows(json_files, target_dir) ==
    IF json_files = <<>> THEN <<>>
    ELSE NotNone(<<StandardRow(Head(json_files),
                               extract_vllm_metrics(Head(json_files).content),
                               target_dir)>>)
         \o StandardRows(Tail(json_files), target_dir)

process_standard_files(json_files, target_dir) ==
    IF json_files = <<>> THEN None
    ELSE sort_values(StandardRows(json_files, target_dir))

\* lines 144-149 for one file
AddFileMetrics(collected, file_metrics) ==
    IF file_metrics = None THEN collected
    ELSE [group_basic |-> Append(collected.group_basic, file_metrics),
          raw_ttfts   |-> Extend(collected.raw_ttfts, file_metrics.raw_ttfts),
          raw_tpots   |-> Extend(collected.raw_tpots, file_metrics.raw_tpots),
          raw_itls    |-> Extend(collected.raw_itls, file_metrics.raw_itls)]

\* the aggregated dict with its 'filename' and 'dataset' entries
LabelledRow(key, target_dir, row) ==
    IF row = TypeError THEN TypeError
    ELSE [filename           |-> key \o <<" (combined)">>,
          request_rate       |-> row.request_rate,
          request_throughput |-> row.request_throughput,
          mean_ttft_ms       |-> row.mean_ttft_ms,
          mean_tpot_ms       |-> row.mean_tpot_ms,
          p99_ttft_ms        |-> row.p99_ttft_ms,
          p99_tpot_ms        |-> row.p99_tpot_ms,
          p99_itl_ms         |-> row.p99_itl_ms,
          dataset            |-> target_dir]

\* the rows a loop over the groups has appended, unless it raised
Rows(rows) == [tag |-> "rows", rows |-> rows]

\* a group's outcome before those of the later groups: an exception ends
\* the loop, a skipped group adds nothing
PrependRow(row, later) ==
    IF row = TypeError THEN TypeError
    ELSE IF later = TypeError THEN TypeError
    ELSE IF row = Skipped THEN later
    ELSE Rows(<<row>> \o later.rows)

SortedOrRaised(appended) ==
    IF appended = TypeError THEN TypeError ELSE sort_values(appended.rows)

\* lines 137-149: what the loop over the files of a group has collected
RECURSIVE CollectGroup(_)
CollectGroup(files) ==
    IF files = <<>>
    THEN [group_basic |-> <<>>, raw_ttfts |-> <<>>, raw_tpots |-> <<>>, raw_itls |-> <<>>]
    ELSE AddFileMetrics(CollectGroup(SubSeq(files, 1, Len(files) - 1)),
                        extract_vllm_metrics(files[Len(files)].content))

\* lines 151-176 for one group: Skipped, TypeError, or the row
GroupRow(key, collected, target_dir) ==
    IF collected.group_basic = <<>> THEN Skipped
    ELSE LabelledRow(key, target_dir,
                     AggregatedRow(collected.group_basic, collected.raw_ttfts,
                                   collected.raw_tpots, collected.raw_itls))

\* all_aggregated of lines 135-176, or TypeError when a group's sums raise
RECURSIVE GroupedRows(_, _)
GroupedRows(groups, target_dir) ==
    IF groups = <<>> THEN Rows(<<>>)
    ELSE PrependRow(GroupRow(Head(groups).base_name, CollectGroup(Head(groups).files),
                             target_dir),
                    GroupedRows(Tail(groups), target_dir))

process_grouped_files(json_files, target_dir) ==
    IF json_files = <<>> THEN None
    ELSE SortedOrRaised(GroupedRows(FileGroups(json_files), target_dir))

(***************************************************************************)
(* data_compare_dp.py: main and generate_grouped_output.  The files of     *)
(* the model's directory are those of 'lmcache' and of 'dp_lmcache_g4';    *)
(* 'dp_lmcache_g5' holds no JSON file.                                     *)
(***************************************************************************)
Half == Dec(1, 2)

\* f, or f + 1, as c places the fraction below, at or above a half
RIntFrom(f, c) ==
    FromInt(IF c > 0 THEN f + 1
            ELSE IF c < 0 THEN f
            ELSE IF f % 2 = 0 THEN f
            ELSE f + 1)

RIntAbove(x, f) == RIntFrom(f, FCmp(FSub(x, FromInt(f)), Half))

\* np.rint(x): to the nearest integer, a tie to the even one
RInt(x) == RIntAbove(x, FloorInt(x))

\* round(x, 2) of a numpy float64: np.rint(x * 100) / 100
Round2(x) == FDivInt(RInt(FMul(x, FromInt(100))), 100)

\* a faulty variant: round(x or 0, 2)
RoundedNoneIsZero(x) ==
    IF x \in {None, NaN} THEN Float(FZero) ELSE Float(Round2(NumberValue(x)))

\* round(x, 2) if x is not None else None; NaN rounds to NaN
Rounded(x) ==
    IF x = None THEN None
    ELSE IF x = NaN THEN NaN
    ELSE Float(Round2(NumberValue(x)))

\* a field of a CSV file without a value
EmptyField == [tag |-> "empty"]

\* df.to_csv(path, index=False): a missing value is written as nothing
to_csv(rows) ==
    [i \in 1..Len(rows) |->
        [column \in DOMAIN rows[i] |->
            IF column \in LabelColumns THEN rows[i][column]
            ELSE IF rows[i][column] \in {None, NaN} THEN EmptyField
            ELSE rows[i][column]]]

target_dirs == <<"lmcache", "dp_lmcache_g4", "dp_lmcache_g5">>

OutputMetrics == {"throughput", "mean_ttft", "p99_ttft", "mean_tpot", "p99_tpot", "p99_itl"}

\* lines 380-397: the six entries of row for one dataset; the column
\* f'{dataset}_{metric}' is cells[dataset][metric]
DatasetCells(dataset_data) ==
    IF dataset_data = <<>> THEN [metric \in OutputMetrics |-> None]
    ELSE [throughput |-> IF dataset_data[1].request_throughput = None THEN TypeError
                         ELSE Rounded(dataset_data[1].request_throughput),
          mean_ttft  |-> Rounded(dataset_data[1].mean_ttft_ms),
          p99_ttft   |-> Rounded(dataset_data[1].p99_ttft_ms),
          mean_tpot  |-> Rounded(dataset_data[1].mean_tpot_ms),
          p99_tpot   |-> Rounded(dataset_data[1].p99_tpot_ms),
          p99_itl    |-> Rounded(dataset_data[1].p99_itl_ms)]

\* the rows of group that belong to dataset
OfDataset(group, dataset) == SelectSeq(group, LAMBDA r : r.dataset = dataset)

\* lines 377-399 for the group of one rate
GroupedOutputRow(rate, group) ==
    [request_rate |-> Float(Round2(NumberValue(rate))),
     cells        |-> [d \in 1..Len(target_dirs) |->
                          DatasetCells(OfDataset(group, target_dirs[d]))]]

\* the keys of combined_df.groupby('request_rate'), ascending
RECURSIVE GroupKeys(_)
GroupKeys(sorted_rows) ==
    IF sorted_rows = <<>> THEN <<>>
    ELSE <<Head(sorted_rows).request_rate>>
         \o GroupKeys(SelectSeq(Tail(sorted_rows),
                                LAMBDA r : r.request_rate # Head(sorted_rows).request_rate))

\* result_data of lines 374-399
ResultData(combined_df, keys) ==
    [k \in 1..Len(keys) |->
        GroupedOutputRow(keys[k],
                         SelectSeq(combined_df, LAMBDA r : r.request_rate = keys[k]))]

\* pd.DataFrame(result_data)
ResultFrame(result_data) ==
    [i \in 1..Len(result_data) |->
        [request_rate |-> result_data[i].request_rate,
         cells        |-> [d \in 1..Len(target_dirs) |->
                              [metric \in OutputMetrics |->
                                  AsCell(result_data[i].cells[d][metric],
                                         \E j \in 1..Len(result_data) :
                                             result_data[j].cells[d][metric].tag
                                                 \in {"float", "NaN"})]]]]

\* result_df.to_csv(csv_path, index=False)
ResultCsv(result_df) ==
    [i \in 1..Len(result_df) |->
        [request_rate |-> result_df[i].request_rate,
         cells        |-> [d \in 1..Len(target_dirs) |->
                              [metric \in OutputMetrics |->
                                  IF result_df[i].cells[d][metric] \in {None, NaN}
                                  THEN EmptyField
                                  ELSE result_df[i].cells[d][metric]]]]]

\* lines 402-408 and 429: the sorted frame and the CSV written from it
SortedResult(result_df) == [result_df |-> result_df, csv |-> ResultCsv(result_df)]

RaisedIn(result_data) ==
    \E i \in 1..Len(result_data) : \E d \in 1..Len(target_dirs) :
        result_data[i].cells[d]["throughput"] = TypeError

GroupedOutput(result_data) ==
    IF RaisedIn(result_data) THEN TypeError
    ELSE SortedResult(SortByRate(ResultFrame(result_data)))

generate_grouped_output(combined_df) ==
    GroupedOutput(ResultData(combined_df, GroupKeys(SortByRate(combined_df))))

\* dir_df.to_csv(dir_csv_path) for a directory that gave a frame
SummaryCsv(dir_df) == IF dir_df = None THEN None ELSE to_csv(dir_df.rows)

\* pd.concat(all_data, ignore_index=True): the values stay as they are
concat(lmcache, dp_lmcache_g4) ==
    (IF lmcache = None THEN <<>> ELSE lmcache.rows)
        \o (IF dp_lmcache_g4 = None THEN <<>> ELSE dp_lmcache_g4.rows)

\* lines 459-467
CombinedOutput(lmcache, dp_lmcache_g4, combined_df) ==
    [tag                   |-> "written",
     lmcache_summary       |-> SummaryCsv(lmcache),
     dp_lmcache_g4_summary |-> SummaryCsv(dp_lmcache_g4),
     combined_summary      |-> to_csv(combined_df),
     grouped               |-> generate_grouped_output(combined_df)]

\* main() on what process_standard_files('lmcache') and
\* process_grouped_files('dp_lmcache_g4') gave, 'dp_lmcache_g5' giving None:
\* an exception of either ends it, no frame at all makes it return
main(lmcache, dp_lmcache_g4) ==
    IF lmcache \in {KeyError, TypeError} THEN lmcache
    ELSE IF dp_lmcache_g4 \in {KeyError, TypeError} THEN dp_lmcache_g4
    ELSE IF lmcache = None /\ dp_lmcache_g4 = None THEN [tag |-> "no data"]
    ELSE CombinedOutput(lmcache, dp_lmcache_g4, concat(lmcache, dp_lmcache_g4))

(***************************************************************************)
(* data_compare.py: process_directory                                      *)
(***************************************************************************)
\* extract_vllm_metrics of data_compare.py
compare_extract_vllm_metrics(f) ==
    IF ~f.readable THEN None
    ELSE IF f.request_rate = None \/ ~IsNumber(f.request_rate) THEN None
    ELSE [tag                |-> "metrics",
          mean_ttft_ms       |-> f.mean_ttft_ms,
          mean_tpot_ms       |-> f.mean_tpot_ms,
          request_rate       |-> f.request_rate,
          request_throughput |-> f.request_throughput]

\* a row of scalars named after its file or group
ScalarRow(filename, metrics) ==
    IF metrics \in {None, Skipped, TypeError} THEN metrics
    ELSE [filename           |-> filename,
          request_rate       |-> metrics.request_rate,
          request_throughput |-> metrics.request_throughput,
          mean_ttft_ms       |-> metrics.mean_ttft_ms,
          mean_tpot_ms       |-> metrics.mean_tpot_ms]

\* all_metrics of lines 37-42
RECURSIVE DirectoryRows(_)
DirectoryRows(json_files) ==
    IF json_files = <<>> THEN <<>>
    ELSE NotNone(<<ScalarRow(Head(json_files).name,
                             compare_extract_vllm_metrics(Head(json_files).content))>>)
         \o DirectoryRows(Tail(json_files))

\* lines 44-49
SortedOrNone(rows) == IF rows = <<>> THEN None ELSE sort_values(rows)

process_directory(json_files) ==
    IF json_files = <<>> THEN None ELSE SortedOrNone(DirectoryRows(json_files))

(***************************************************************************)
(* data_collect_dp.py: process_all_vllm_files and the main block           *)
(***************************************************************************)
\* lines 43-48
collect_dp_base_name(filename) ==
    IF \E i \in 1..Len(filename) : filename[i] = "-"
    THEN SubSeq(filename, 1,
                (CHOOSE i \in 1..Len(filename) :
                    filename[i] = "-" /\ \A j \in (i + 1)..Len(filename) : filename[j] # "-") - 1)
    ELSE filename

\* lines 39-48
RECURSIVE collect_dp_file_groups(_)
collect_dp_file_groups(json_files) ==
    IF json_files = <<>> THEN <<>>
    ELSE AppendToGroup(collect_dp_file_groups(SubSeq(json_files, 1, Len(json_files) - 1)),
                       collect_dp_base_name(json_files[Len(json_files)].name),
                       json_files[Len(json_files)])

Contents(files) == [i \in 1..Len(files) |-> files[i].content]

\* all_metrics of lines 50-70, or TypeError when a group's sums raise
RECURSIVE collect_dp_all_metrics(_)
collect_dp_all_metrics(groups) ==
    IF groups = <<>> THEN Rows(<<>>)
    ELSE PrependRow(ScalarRow(Head(groups).base_name \o <<" (combined)">>,
                              collect_dp_aggregated(
                                  collect_dp_group_data(Contents(Head(groups).files)))),
                    collect_dp_all_metrics(Tail(groups)))

\* the returned pair (metrics_df_sorted, target_dir) by its table
collect_dp_process_all_vllm_files(json_files) ==
    IF json_files = <<>> THEN None
    ELSE SortedOrRaised(collect_dp_all_metrics(collect_dp_file_groups(json_files)))

\* line 113 and what follows: vllm_metrics_df, dir_name = <returned>
collect_dp_main(returned) ==
    IF returned = None THEN TypeError
    ELSE IF returned.tag = "table" THEN [tag |-> "completed"]
    ELSE returned

(***************************************************************************)
(* data_collect.py: process_all_vllm_files                                 *)
(***************************************************************************)
\* extract_vllm_metrics of data_collect.py: no check of request_rate
collect_extract_vllm_metrics(f) ==
    IF ~f.readable THEN None
    ELSE [tag                |-> "metrics",
          mean_ttft_ms       |-> f.mean_ttft_ms,
          mean_tpot_ms       |-> f.mean_tpot_ms,
          request_rate       |-> f.request_rate,
          request_throughput |-> f.request_throughput]

\* all_metrics of lines 39-43
RECURSIVE collect_all_metrics(_)
collect_all_metrics(json_files) ==
    IF json_files = <<>> THEN <<>>
    ELSE NotNone(<<ScalarRow(Head(json_files).name,
                             collect_extract_vllm_metrics(Head(json_files).content))>>)
         \o collect_all_metrics(Tail(json_files))

\* the frame is returned unsorted, also when it has no rows
collect_process_all_vllm_files(json_files) ==
    IF json_files = <<>> THEN None ELSE Table(DataFrame(collect_all_metrics(json_files)))

(***************************************************************************)
(* split_dataset.py.  A line is its text and whether a newline ends it;    *)
(* a file is the list of lines a reader finds in it.                       *)
(***************************************************************************)
\* math.ceil(x)
CeilInt(x) == -FloorInt(FNeg(x))

\* math.ceil(total_requests / 2), the quotient being a float
half_of(total_requests) == CeilInt(FDivInt(FromInt(total_requests), 2))

\* lines[:half_requests]
UpTo(lines, half_requests) ==
    SubSeq(lines, 1, IF half_requests < Len(lines) THEN half_requests ELSE Len(lines))

\* lines[half_requests:]
From(lines, half_requests) == SubSeq(lines, half_requests + 1, Len(lines))

\* f.writelines(lines): the strings are written one after the other and
\* nothing is put between them, so a line without a newline runs into the
\* line after it
RECURSIVE writelines(_)
writelines(lines) ==
    IF lines = <<>> THEN <<>>
    ELSE IF Head(lines).newline THEN <<Head(lines)>> \o writelines(Tail(lines))
    ELSE IF Tail(lines) = <<>> THEN lines
    ELSE writelines(<<[text    |-> Head(lines).text \o lines[2].text,
                       newline |-> lines[2].newline]>>
                    \o Tail(Tail(lines)))

(***************************************************************************)
(* Inputs                                                                  *)
(***************************************************************************)
MaxLen == 4

\* latencies in ms: 0.3, 1.0, 2.5
SampleValues == {Dec(3, 10), FromInt(1), Dec(25, 10)}

RECURSIVE SeqsUpTo(_, _)
SeqsUpTo(S, n) ==
    IF n = 0 THEN {<<>>}
    ELSE LET shorter == SeqsUpTo(S, n - 1)
         IN  shorter \cup {Append(s, x) : s \in {t \in shorter : Len(t) = n - 1}, x \in S}

\* the worked example of the documentation: samples 1, 2, 3, 4
ExampleSamples == <<FromInt(1), FromInt(2), FromInt(3), FromInt(4)>>

SampleLists == SeqsUpTo(SampleValues, MaxLen) \cup {ExampleSamples}

\* 0, 25, 50, 99, 99.99, 100
ValidPercentiles ==
    {FromInt(0), FromInt(25), FromInt(50), FromInt(99), Dec(9999, 100), FromInt(100)}

\* -10, 101, 150
OutOfRangePercentiles == {FromInt(-10), FromInt(101), FromInt(150)}

Percentiles == ValidPercentiles \cup OutOfRangePercentiles

MaxReplicas == 2

\* latencies as the result files hold them, in seconds: 0.0003, 0.001, 0.0025
Sec03 == Float(Dec(3, 10000))

Sec1 == Float(Dec(1, 1000))

Sec25 == Float(Dec(25, 10000))

ResultFile(rate, ttfts, tpots, itls) ==
    [readable           |-> TRUE,
     request_rate       |-> rate,
     request_throughput |-> Float(FromInt(2)),
     mean_ttft_ms       |-> Float(FromInt(100)),
     mean_tpot_ms       |-> Float(FromInt(10)),
     ttfts              |-> ttfts,
     tpots              |-> tpots,
     itls               |-> itls]

\* a file json.load cannot parse
UnreadableFile == [readable |-> FALSE]

\* files extract_vllm_metrics accepts
ValidFiles ==
    {ResultFile(Float(FromInt(1)), ttfts, tpots, itls) :
        ttfts \in {<<>>, <<Sec1>>, <<Sec25, Sec03>>, <<Sec1, Str, Sec25>>},
        tpots \in {<<>>, <<Sec03>>},
        itls  \in {<<>>, <<List(<<Sec1, Sec25>>), Sec03>>}}

\* files it rejects: unparsable, or without a request_rate
InvalidFiles == {UnreadableFile, ResultFile(None, <<Sec1>>, <<Sec03>>, <<Sec25>>)}

\* the files glob finds for one base name, in any order
ReplicaGroups ==
    {g \in SeqsUpTo(ValidFiles \cup InvalidFiles, MaxReplicas) : g # <<>>}

\* a replica's result file by its scalars; it served as many requests as it
\* has ttfts
ReplicaFile(rate, throughput, mean_ttft, mean_tpot, ttfts) ==
    [readable           |-> TRUE,
     request_rate       |-> rate,
     request_throughput |-> throughput,
     mean_ttft_ms       |-> mean_ttft,
     mean_tpot_ms       |-> mean_tpot,
     ttfts              |-> ttfts,
     tpots              |-> <<>>,
     itls               |-> <<>>]

\* scalars a replica reports, or lacks
Rates == {Float(FromInt(1)), Float(FromInt(2))}

Throughputs == {Float(FromInt(2)), Float(FromInt(3)), None}

MeanTtfts == {Float(FromInt(100)), Float(FromInt(120)), None}

\* the replica files: the busier replica (throughput 3) served two requests,
\* the other one, a replica without a throughput none
ScalarFiles ==
    {ReplicaFile(rate, throughput, mean_ttft,
                 IF throughput = None THEN None ELSE Float(FromInt(10)),
                 IF throughput = None THEN <<>>
                 ELSE IF throughput = Float(FromInt(3)) THEN <<Sec1, Sec25>>
                 ELSE <<Sec03>>) :
        rate \in Rates, throughput \in Throughputs, mean_ttft \in MeanTtfts}

ScalarGroups ==
    {g \in SeqsUpTo(ScalarFiles \cup InvalidFiles, MaxReplicas) : g # <<>>}

MaxEntries == 2

\* entries of a ttfts or tpots array: seconds, a string, null, true
ArrayEntries == {Sec1, Sec25, Str, None, Bool(TRUE)}

\* entries of an itls array: also lists, of numbers and of what is not a number
ItlEntries ==
    {Sec03, Str, List(<<Sec1, Bool(TRUE)>>), List(<<List(<<Sec1>>), Sec25, None>>)}

\* one result file with any such arrays
IngestFiles ==
    {ResultFile(Float(FromInt(1)), ttfts, ttfts, itls) :
        ttfts \in SeqsUpTo(ArrayEntries, MaxEntries),
        itls  \in SeqsUpTo(ItlEntries, MaxEntries)}

MaxFiles == 3

\* a-8000.json, a-8001.json, a-b-8000.json, c.json
FileNames ==
    {<<"a", "-", "8000.json">>, <<"a", "-", "8001.json">>,
     <<"a", "-", "b", "-", "8000.json">>, <<"c.json">>}

\* a file at rate 1 with samples but no itls, a file at rate 2 without raw
\* samples, and the two files extract_vllm_metrics of data_compare_dp.py rejects
FileContents ==
    {ResultFile(Float(FromInt(1)), <<Sec1, Sec25>>, <<Sec03>>, <<>>),
     ResultFile(Float(FromInt(2)), <<>>, <<>>, <<>>)} \cup InvalidFiles

\* what glob can return: files of distinct names, in any order
Directories ==
    {d \in SeqsUpTo([name : FileNames, content : FileContents], MaxFiles) :
        \A i, j \in 1..Len(d) : d[i].name = d[j].name => i = j}

MaxLines == 4

LineTexts == {<<"a">>, <<"b">>}

\* what f.readlines() can give: every line ends with a newline, but for
\* the last one of a file that does not end with one
InputFiles ==
    {f \in SeqsUpTo([text : LineTexts, newline : BOOLEAN], MaxLines) :
        \A i \in 1..(Len(f) - 1) : f[i].newline}

\* what random.shuffle can leave: any ordering of s, s itself among them
Orderings(s) == {[i \in 1..Len(s) |-> s[f[i]]] : f \in Permutations(1..Len(s))}

\* the orderings of s other than s itself
Shuffles(s) ==
    {t \in {[i \in 1..Len(s) |-> s[f[i]]] : f \in Permutations(1..Len(s))} : t # s}

(***************************************************************************)
(* A caller: builds a list, asks for a percentile, then asks again, either *)
(* for another percentile of the same list or for the same percentile of   *)
(* the list reordered.                                                     *)
(***************************************************************************)
VARIABLES
    data,        \* the caller's list
    passed,      \* the list as it was handed to the latest call
    percentile,  \* argument of the latest call
    result,      \* what the latest call returned or raised
    prevP,       \* argument of the call before
    prevResult,  \* its result
    pc           \* "start", "called", "shuffled", "again", "reordered"

(***************************************************************************)
(* process_grouped_files working through the files of one group            *)
(***************************************************************************)
VARIABLES
    group_files,      \* the result files of the group
    file_pos,         \* position of the loop of line 143
    group_basic,      \* metrics of the valid files read so far
    group_raw_ttfts,
    group_raw_tpots,
    group_raw_itls,
    aggregated,       \* the group's row; Skipped; TypeError when the sums raise
    gpc               \* "idle", "collect", "done"

(***************************************************************************)
(* data_collect_dp.process_all_vllm_files on the same group                *)
(***************************************************************************)
VARIABLES
    collect_dp_result  \* its row for the group; Skipped; TypeError when it raises

(***************************************************************************)
(* The scripts run on one directory                                        *)
(***************************************************************************)
VARIABLES
    directory,          \* the files glob returned, in its order
    file_groups,        \* file_groups of process_grouped_files
    standard_table,     \* what process_standard_files returned or raised
    grouped_table,      \* what process_grouped_files returned or raised
    directory_table,    \* what process_directory returned or raised
    collect_dp_groups,  \* file_groups of data_collect_dp.py
    collect_dp_table,   \* what its process_all_vllm_files returned or raised
    collect_dp_outcome, \* how its main block ended
    collect_table,      \* what process_all_vllm_files of data_collect.py returned
    dpc,                \* the script that ran last
    main_output         \* what main() of data_compare_dp.py wrote, or how it ended

(***************************************************************************)
(* split_dataset.py                                                        *)
(***************************************************************************)
VARIABLES
    input_file,         \* the lines of narrativeqa.jsonl
    lines,              \* lines
    half_requests,      \* half_requests
    part1_lines,        \* part1_lines
    part2_lines,        \* part2_lines
    output_file_1,      \* the lines of narrativeqa_part1.jsonl
    output_file_2,      \* the lines of narrativeqa_part2.jsonl
    spc                 \* the statement that ran last

pvars == <<data, passed, percentile, result, prevP, prevResult, pc>>

gvars == <<group_files, file_pos, group_basic, group_raw_ttfts, group_raw_tpots,
           group_raw_itls, aggregated, gpc>>

dvars == <<collect_dp_result>>

tvars == <<directory, file_groups, standard_table, grouped_table, directory_table,
           collect_dp_groups, collect_dp_table, collect_dp_outcome, collect_table, dpc>>

mvars == <<main_output>>

svars == <<input_file, lines, half_requests, part1_lines, part2_lines,
           output_file_1, output_file_2, spc>>

vars == <<pvars, gvars, dvars, tvars, mvars, svars>>

NoCaller ==
    /\ data = <<>>
    /\ passed = <<>>
    /\ percentile = NoCall
    /\ result = NoCall
    /\ prevP = NoCall
    /\ prevResult = NoCall
    /\ pc = "idle"

NoGroup ==
    /\ group_files = <<>>
    /\ file_pos = 1
    /\ group_basic = <<>>
    /\ group_raw_ttfts = <<>>
    /\ group_raw_tpots = <<>>
    /\ group_raw_itls = <<>>
    /\ aggregated = NoCall
    /\ gpc = "idle"

NoSplit ==
    /\ input_file = <<>>
    /\ lines = <<>>
    /\ half_requests = 0
    /\ part1_lines = <<>>
    /\ part2_lines = <<>>
    /\ output_file_1 = <<>>
    /\ output_file_2 = <<>>
    /\ spc = "idle"

NoDirectory ==
    /\ NoSplit
    /\ directory = <<>>
    /\ file_groups = NoCall
    /\ standard_table = NoCall
    /\ grouped_table = NoCall
    /\ directory_table = NoCall
    /\ collect_dp_groups = NoCall
    /\ collect_dp_table = NoCall
    /\ collect_dp_outcome = NoCall
    /\ collect_table = NoCall
    /\ main_output = NoCall
    /\ dpc = "idle"

NoCollectDp == collect_dp_result = NoCall /\ NoDirectory

Init ==
    /\ data \in SampleLists
    /\ passed = <<>>
    /\ percentile = NoCall
    /\ result = NoCall
    /\ prevP = NoCall
    /\ prevResult = NoCall
    /\ pc = "start"
    /\ NoGroup
    /\ NoCollectDp

\* result = calculate_percentile(data, p)
Call(p, next) ==
    /\ passed' = data
    /\ percentile' = p
    /\ result' = calculate_percentile(data, p)
    /\ data' = ArgumentAfterCall(data)
    /\ prevP' = percentile
    /\ prevResult' = result
    /\ pc' = next
    /\ UNCHANGED <<gvars, dvars, tvars, mvars, svars>>

FirstCall ==
    /\ pc = "start"
    /\ \E p \in Percentiles : Call(p, "called")

SecondCall ==
    /\ pc = "called"
    /\ \E p \in Percentiles : Call(p, "again")

\* the list reaches the next call in another order
Shuffle ==
    /\ pc = "called"
    /\ data' \in Shuffles(data)
    /\ pc' = "shuffled"
    /\ UNCHANGED <<passed, percentile, result, prevP, prevResult>>
    /\ UNCHANGED <<gvars, dvars, tvars, mvars, svars>>

CallReordered ==
    /\ pc = "shuffled"
    /\ Call(percentile, "reordered")

Next == FirstCall \/ SecondCall \/ Shuffle \/ CallReordered

Spec == Init /\ [][Next]_vars

GroupInit ==
    /\ NoCaller
    /\ group_files \in ReplicaGroups
    /\ file_pos = 1
    /\ group_basic = <<>>
    /\ group_raw_ttfts = <<>>
    /\ group_raw_tpots = <<>>
    /\ group_raw_itls = <<>>
    /\ aggregated = NoCall
    /\ gpc = "collect"
    /\ NoCollectDp

\* lines 143-149: one pass of the loop over the group's files
CollectFile ==
    /\ gpc = "collect"
    /\ file_pos <= Len(group_files)
    /\ LET file_metrics == extract_vllm_metrics(group_files[file_pos])
       IN  IF file_metrics # None
           THEN /\ group_basic' = Append(group_basic, file_metrics)
                /\ group_raw_ttfts' = Extend(group_raw_ttfts, file_metrics.raw_ttfts)
                /\ group_raw_tpots' = Extend(group_raw_tpots, file_metrics.raw_tpots)
                /\ group_raw_itls' = Extend(group_raw_itls, file_metrics.raw_itls)
           ELSE UNCHANGED <<group_basic, group_raw_ttfts, group_raw_tpots, group_raw_itls>>
    /\ file_pos' = file_pos + 1
    /\ UNCHANGED <<group_files, aggregated, gpc>>
    /\ UNCHANGED <<pvars, dvars, tvars, mvars, svars>>

\* lines 151-176: skip a group without valid data, else build its row
AggregateGroup ==
    /\ gpc = "collect"
    /\ file_pos > Len(group_files)
    /\ aggregated' =
           IF group_basic = <<>> THEN Skipped
           ELSE AggregatedRow(group_basic, group_raw_ttfts, group_raw_tpots, group_raw_itls)
    /\ gpc' = "done"
    /\ UNCHANGED <<group_files, file_pos, group_basic, group_raw_ttfts,
                   group_raw_tpots, group_raw_itls>>
    /\ UNCHANGED <<pvars, dvars, tvars, mvars, svars>>

GroupNext == CollectFile \/ AggregateGroup

SpecGroup == GroupInit /\ [][GroupNext]_vars

(***************************************************************************)
(* One result file, with arrays of any entries, taken in and aggregated    *)
(***************************************************************************)
IngestInit ==
    /\ NoCaller
    /\ \E f \in IngestFiles : group_files = <<f>>
    /\ file_pos = 1
    /\ group_basic = <<>>
    /\ group_raw_ttfts = <<>>
    /\ group_raw_tpots = <<>>
    /\ group_raw_itls = <<>>
    /\ aggregated = NoCall
    /\ gpc = "collect"
    /\ NoCollectDp

SpecIngest == IngestInit /\ [][GroupNext]_vars

(***************************************************************************)
(* Both grouped aggregators on one replica group: process_grouped_files    *)
(* of data_compare_dp.py, then process_all_vllm_files of                   *)
(* data_collect_dp.py on the same files.                                   *)
(***************************************************************************)
ScalarInit ==
    /\ NoCaller
    /\ group_files \in ScalarGroups
    /\ file_pos = 1
    /\ group_basic = <<>>
    /\ group_raw_ttfts = <<>>
    /\ group_raw_tpots = <<>>
    /\ group_raw_itls = <<>>
    /\ aggregated = NoCall
    /\ gpc = "collect"
    /\ NoCollectDp

\* data_collect_dp.py lines 52-70 for the group
CollectDpGroup ==
    /\ gpc = "done"
    /\ collect_dp_result' = collect_dp_aggregated(collect_dp_group_data(group_files))
    /\ gpc' = "both"
    /\ UNCHANGED <<group_files, file_pos, group_basic, group_raw_ttfts,
                   group_raw_tpots, group_raw_itls, aggregated>>
    /\ UNCHANGED <<pvars, tvars, mvars, svars>>

ScalarNext == CollectFile \/ AggregateGroup \/ CollectDpGroup

SpecScalars == ScalarInit /\ [][ScalarNext]_vars

(***************************************************************************)
(* The scripts on one directory, one after the other: data_compare_dp.py   *)
(* (process_standard_files, process_grouped_files), data_compare.py        *)
(* (process_directory), data_collect_dp.py (process_all_vllm_files, then   *)
(* the main block on what it returned) and data_collect.py.                *)
(***************************************************************************)
DirectoryInit ==
    /\ NoSplit
    /\ NoCaller
    /\ NoGroup
    /\ collect_dp_result = NoCall
    /\ directory \in Directories
    /\ file_groups = NoCall
    /\ standard_table = NoCall
    /\ grouped_table = NoCall
    /\ directory_table = NoCall
    /\ collect_dp_groups = NoCall
    /\ collect_dp_table = NoCall
    /\ collect_dp_outcome = NoCall
    /\ collect_table = NoCall
    /\ main_output = NoCall
    /\ dpc = "glob"

ProcessStandardFiles ==
    /\ dpc = "glob"
    /\ standard_table' = process_standard_files(directory, "lmcache")
    /\ dpc' = "standard"
    /\ UNCHANGED <<directory, file_groups, grouped_table, directory_table,
                   collect_dp_groups, collect_dp_table, collect_dp_outcome, collect_table>>
    /\ UNCHANGED <<pvars, gvars, dvars, mvars, svars>>

ProcessGroupedFiles ==
    /\ dpc = "standard"
    /\ file_groups' = FileGroups(directory)
    /\ grouped_table' = process_grouped_files(directory, "dp_lmcache_g4")
    /\ dpc' = "grouped"
    /\ UNCHANGED <<directory, standard_table, directory_table,
                   collect_dp_groups, collect_dp_table, collect_dp_outcome, collect_table>>
    /\ UNCHANGED <<pvars, gvars, dvars, mvars, svars>>

\* main() of data_compare_dp.py
Main ==
    /\ dpc = "grouped"
    /\ main_output' = main(standard_table, grouped_table)
    /\ dpc' = "main"
    /\ UNCHANGED <<directory, file_groups, standard_table, grouped_table, directory_table,
                   collect_dp_groups, collect_dp_table, collect_dp_outcome, collect_table>>
    /\ UNCHANGED <<pvars, gvars, dvars, svars>>

ProcessDirectory ==
    /\ dpc = "main"
    /\ directory_table' = process_directory(directory)
    /\ dpc' = "directory"
    /\ UNCHANGED <<directory, file_groups, standard_table, grouped_table,
                   collect_dp_groups, collect_dp_table, collect_dp_outcome, collect_table>>
    /\ UNCHANGED <<pvars, gvars, dvars, mvars, svars>>

CollectDpProcessAll ==
    /\ dpc = "directory"
    /\ collect_dp_groups' = collect_dp_file_groups(directory)
    /\ collect_dp_table' = collect_dp_process_all_vllm_files(directory)
    /\ dpc' = "collect_dp"
    /\ UNCHANGED <<directory, file_groups, standard_table, grouped_table, directory_table,
                   collect_dp_outcome, collect_table>>
    /\ UNCHANGED <<pvars, gvars, dvars, mvars, svars>>

CollectDpMain ==
    /\ dpc = "collect_dp"
    /\ collect_dp_outcome' = collect_dp_main(collect_dp_table)
    /\ dpc' = "collect_dp_main"
    /\ UNCHANGED <<directory, file_groups, standard_table, grouped_table, directory_table,
                   collect_dp_groups, collect_dp_table, collect_table>>
    /\ UNCHANGED <<pvars, gvars, dvars, mvars, svars>>

CollectProcessAll ==
    /\ dpc = "collect_dp_main"
    /\ collect_table' = collect_process_all_vllm_files(directory)
    /\ dpc' = "end"
    /\ UNCHANGED <<directory, file_groups, standard_table, grouped_table, directory_table,
                   collect_dp_groups, collect_dp_table, collect_dp_outcome>>
    /\ UNCHANGED <<pvars, gvars, dvars, mvars, svars>>

DirectoryNext ==
    \/ ProcessStandardFiles
    \/ ProcessGroupedFiles
    \/ Main
    \/ ProcessDirectory
    \/ CollectDpProcessAll
    \/ CollectDpMain
    \/ CollectProcessAll

SpecDirectory == DirectoryInit /\ [][DirectoryNext]_vars

(***************************************************************************)
(* split_dataset.py, statement by statement                                *)
(***************************************************************************)
SplitInit ==
    /\ NoCaller
    /\ NoGroup
    /\ collect_dp_result = NoCall
    /\ directory = <<>>
    /\ file_groups = NoCall
    /\ standard_table = NoCall
    /\ grouped_table = NoCall
    /\ directory_table = NoCall
    /\ collect_dp_groups = NoCall
    /\ collect_dp_table = NoCall
    /\ collect_dp_outcome = NoCall
    /\ collect_table = NoCall
    /\ main_output = NoCall
    /\ dpc = "idle"
    /\ input_file \in InputFiles
    /\ lines = <<>>
    /\ half_requests = 0
    /\ part1_lines = <<>>
    /\ part2_lines = <<>>
    /\ output_file_1 = <<>>
    /\ output_file_2 = <<>>
    /\ spc = "start"

\* lines 8-9
ReadLines ==
    /\ spc = "start"
    /\ lines' = input_file
    /\ spc' = "read"
    /\ UNCHANGED <<input_file, half_requests, part1_lines, part2_lines,
                   output_file_1, output_file_2>>
    /\ UNCHANGED <<pvars, gvars, dvars, tvars, mvars>>

\* line 11
ShuffleLines ==
    /\ spc = "read"
    /\ lines' \in Orderings(lines)
    /\ spc' = "shuffled"
    /\ UNCHANGED <<input_file, half_requests, part1_lines, part2_lines,
                   output_file_1, output_file_2>>
    /\ UNCHANGED <<pvars, gvars, dvars, tvars, mvars>>

\* lines 13-17
SplitLines ==
    /\ spc = "shuffled"
    /\ half_requests' = half_of(Len(lines))
    /\ part1_lines' = UpTo(lines, half_of(Len(lines)))
    /\ part2_lines' = From(lines, half_of(Len(lines)))
    /\ spc' = "split"
    /\ UNCHANGED <<input_file, lines, output_file_1, output_file_2>>
    /\ UNCHANGED <<pvars, gvars, dvars, tvars, mvars>>

\* lines 19-23
WriteParts ==
    /\ spc = "split"
    /\ output_file_1' = writelines(part1_lines)
    /\ output_file_2' = writelines(part2_lines)
    /\ spc' = "written"
    /\ UNCHANGED <<input_file, lines, half_requests, part1_lines, part2_lines>>
    /\ UNCHANGED <<pvars, gvars, dvars, tvars, mvars>>

SplitNext == ReadLines \/ ShuffleLines \/ SplitLines \/ WriteParts

SpecSplit == SplitInit /\ [][SplitNext]_vars

(***************************************************************************)
(* Vocabulary of the properties                                            *)
(***************************************************************************)
Returned == pc \in {"called", "again", "reordered"}

InRange(p) == FLeq(FZero, p) /\ FLeq(p, FromInt(100))

Range(s) == {s[i] : i \in 1..Len(s)}

IsAscending(s) == \A i \in 1..(Len(s) - 1) : FLeq(s[i], s[i + 1])

\* the k-th smallest element of d, by counting: fewer than k elements lie
\* below it and at least k lie at or below it
OrderStatistic(d, k) ==
    CHOOSE x \in Range(d) :
        /\ Cardinality({i \in 1..Len(d) : FCmp(d[i], x) < 0}) < k
        /\ Cardinality({i \in 1..Len(d) : FCmp(d[i], x) <= 0}) >= k

\* the ascending arrangement of d, by definition rather than by an algorithm
Ascending(d) == [k \in 1..Len(d) |-> OrderStatistic(d, k)]

MinOf(d) == CHOOSE x \in Range(d) : \A y \in Range(d) : FLeq(x, y)

MaxOf(d) == CHOOSE x \in Range(d) : \A y \in Range(d) : FLeq(y, x)

\* the R-7 value of a non-empty d at p in [0, 100], in binary64 arithmetic
R7(d, p) ==
    LET s     == Ascending(d)
        n     == Len(d)
        index == FMul(FromInt(n - 1), FDivInt(p, 100))
        lower == FloorInt(index)
        frac  == FSub(index, FromInt(lower))
    IN  IF lower + 1 < n
        THEN FAdd(s[lower + 1], FMul(frac, FSub(s[lower + 2], s[lower + 1])))
        ELSE s[lower + 1]

(***************************************************************************)
(* C1: for every non-empty sample list and every p in [0, 100] the call    *)
(* returns the R-7 linear-interpolation value: sorted[lower] +             *)
(* frac * (sorted[lower+1] - sorted[lower]) when lower + 1 < n, and        *)
(* sorted[lower] otherwise, with index = (n-1) * (p/100).                  *)
(***************************************************************************)
C1_ReturnsR7 ==
    (Returned /\ passed # <<>> /\ InRange(percentile))
        => result = Float(R7(passed, percentile))

C1_Witness ==
    /\ Returned
    /\ Len(passed) >= 3
    /\ ~IsAscending(passed)
    /\ percentile = Dec(9999, 100)
    /\ result.tag = "float"
    /\ result.v \notin Range(passed)

(***************************************************************************)
(* C2: a percentile outside [0, 100] makes the call fail with an error,    *)
(* for every sample list; the call never returns a numeric value for it.   *)
(* Stated by its weakest part: no numeric value is returned.               *)
(***************************************************************************)
C2_OutOfRangeNeverReturnsValue ==
    (Returned /\ ~InRange(percentile)) => result.tag # "float"

(***************************************************************************)
(* C3: on an empty sample list the call returns None for every valid p:    *)
(* neither 0 nor an exception.                                             *)
(***************************************************************************)
C3_EmptyGivesNone ==
    (Returned /\ passed = <<>> /\ InRange(percentile)) => result = None

C3_Witness ==
    Returned /\ passed = <<>> /\ percentile = FromInt(99) /\ result = None

(***************************************************************************)
(* C4: for every non-empty sample list, p = 0 gives the minimum and        *)
(* p = 100 the maximum.                                                    *)
(***************************************************************************)
C4_MinAndMax ==
    (Returned /\ passed # <<>>) =>
        /\ percentile = FZero => result = Float(MinOf(passed))
        /\ percentile = FromInt(100) => result = Float(MaxOf(passed))

C4_Witness ==
    /\ pc = "again"
    /\ Len(passed) >= 3
    /\ ~IsAscending(passed)
    /\ prevP = FZero
    /\ percentile = FromInt(100)
    /\ prevResult = Float(MinOf(passed))
    /\ result = Float(MaxOf(passed))
    /\ prevResult # result

(***************************************************************************)
(* C5: for a one-element list [x] the call returns x for every valid p.    *)
(***************************************************************************)
C5_SingleSample ==
    (Returned /\ Len(passed) = 1 /\ InRange(percentile))
        => result = Float(passed[1])

C5_Witness ==
    /\ Returned
    /\ Len(passed) = 1
    /\ percentile = Dec(9999, 100)
    /\ result = Float(Dec(25, 10))

(***************************************************************************)
(* C6: order-independence: the same percentile of any reordering of the    *)
(* list is the same value.                                                 *)
(***************************************************************************)
C6_OrderIndependent ==
    (pc = "reordered" /\ InRange(percentile)) => result = prevResult

C6_Witness ==
    /\ pc = "reordered"
    /\ Len(passed) >= 3
    /\ ~IsAscending(passed)
    /\ percentile = FromInt(50)
    /\ result.tag = "float"
    /\ result = prevResult
    /\ result # Float(passed[2])

(***************************************************************************)
(* C7: monotonicity in p: for a fixed non-empty list and p1 < p2 in        *)
(* [0, 100], the value at p1 is at most the value at p2.                   *)
(***************************************************************************)
C7_MonotoneInP ==
    (/\ pc = "again"
     /\ passed # <<>>
     /\ InRange(prevP)
     /\ InRange(percentile)
     /\ FCmp(prevP, percentile) < 0)
        => FLeq(prevResult.v, result.v)

C7_Witness ==
    /\ pc = "again"
    /\ Len(passed) >= 3
    /\ ~IsAscending(passed)
    /\ prevP = FromInt(99)
    /\ percentile = Dec(9999, 100)
    /\ FCmp(prevResult.v, result.v) < 0

(***************************************************************************)
(* Exact arithmetic for C8: the naturals x * 2^(-e0)                       *)
(***************************************************************************)
Scaled(x, e0) == IF x.sgn = 0 THEN <<>> ELSE BShl(x.man, x.exp - e0)

MinExp(S) ==
    LET es == {x.exp : x \in S} \cup {0}
    IN  CHOOSE e \in es : \A f \in es : e <= f

\* for positive samples d and p in [0, 100]: r differs from the R-7 value
\* of d at p, taken in exact arithmetic over the binary64 inputs, by at most
\* n * max(d) * 2^-50
WithinRounding(d, p, r) ==
    LET s       == Ascending(d)
        n       == Len(s)
        e0      == MinExp(Range(s))
        k       == -MinExp({p})
        S(i)    == Scaled(s[i], e0)
        hundred == BShl(<<100>>, k)
        i100    == BMul(BFromInt(n - 1), Scaled(p, -k))
        lower   == BToInt(BShr(BDivLimb(i100, 100).q, k))
        fracN   == BSub(i100, BMul(BFromInt(lower), hundred))
        exact   == IF lower + 1 < n
                   THEN BAdd(BMul(S(lower + 1), hundred),
                             BMul(fracN, BSub(S(lower + 2), S(lower + 1))))
                   ELSE BMul(S(lower + 1), hundred)
        t       == r.exp - (e0 - k)
        up      == IF t >= 0 THEN 0 ELSE -t
        got     == BShl(BMulLimb(r.man, 100), IF t >= 0 THEN t ELSE 0)
        want    == BShl(exact, up)
        tol     == BShr(BShl(BMul(BMulLimb(S(n), n), hundred), up), 50)
        diff    == IF BCmp(got, want) >= 0 THEN BSub(got, want) ELSE BSub(want, got)
    IN  BCmp(diff, tol) <= 0

\* the binary64 value next below a positive x that is no power of two
NextBelow(x) == [x EXCEPT !.man = BSub(x.man, <<1>>)]

(***************************************************************************)
(* C8 as stated: calculate_percentile([1, 2, 3, 4], 99) is exactly 3.97.   *)
(***************************************************************************)
C8_ExactlyThreePointNineSeven ==
    (Returned /\ passed = ExampleSamples /\ percentile = FromInt(99))
        => result = Float(Dec(397, 100))

(***************************************************************************)
(* C8 amended: calculate_percentile([1, 2, 3, 4], 99) is the binary64      *)
(* value next below 3.97 (3.9699999999999998); for every non-empty list    *)
(* and valid p the result is the interpolated value up to the rounding of  *)
(* the binary64 operations (within n * max(samples) * 2^-50 of the exact   *)
(* value): frac is neither rounded nor truncated by the algorithm.         *)
(***************************************************************************)
C8_InterpolatedUpToRounding ==
    /\ (Returned /\ passed = ExampleSamples /\ percentile = FromInt(99))
           => result = Float(NextBelow(Dec(397, 100)))
    /\ (Returned /\ passed # <<>> /\ InRange(percentile))
           => /\ result.tag = "float"
              /\ WithinRounding(passed, percentile, result.v)

C8_Witness ==
    /\ Returned
    /\ passed = ExampleSamples
    /\ percentile = FromInt(99)
    /\ result.tag = "float"
    /\ FCmp(FromInt(3), result.v) < 0
    /\ FCmp(result.v, Dec(397, 100)) < 0

Metrics == {"ttft", "tpot", "itl"}

\* what extract_vllm_metrics gives for each file of the group
ReplicaMetrics == [i \in 1..Len(group_files) |-> extract_vllm_metrics(group_files[i])]

\* the raw samples of one valid replica
RawSamples(m, metric) ==
    CASE metric = "ttft" -> m.raw_ttfts
      [] metric = "tpot" -> m.raw_tpots
      [] metric = "itl"  -> m.raw_itls

Occurrences(xs, v) == Cardinality({i \in 1..Len(xs) : xs[i] = v})

\* observations equal to v over the valid replicas among ms
RECURSIVE ReplicaOccurrences(_, _, _)
ReplicaOccurrences(ms, metric, v) ==
    IF ms = <<>> THEN 0
    ELSE (IF Head(ms) # None THEN Occurrences(RawSamples(Head(ms), metric), v) ELSE 0)
         + ReplicaOccurrences(Tail(ms), metric, v)

Combined(metric) ==
    CASE metric = "ttft" -> group_raw_ttfts
      [] metric = "tpot" -> group_raw_tpots
      [] metric = "itl"  -> group_raw_itls

Reported(metric) ==
    CASE metric = "ttft" -> aggregated.p99_ttft_ms
      [] metric = "tpot" -> aggregated.p99_tpot_ms
      [] metric = "itl"  -> aggregated.p99_itl_ms

\* the values observed by the valid replicas among ms
ValuesSeen(ms, metric) ==
    UNION {Range(RawSamples(ms[i], metric)) : i \in {j \in 1..Len(ms) : ms[j] # None}}

\* the 99th percentile of one replica's own samples
ReplicaP99(m, metric) ==
    IF RawSamples(m, metric) = <<>> THEN None
    ELSE Float(R7(RawSamples(m, metric), P99))

\* xs and the samples of the valid replicas among ms are equal as multisets
IsUnionOf(xs, ms, metric) ==
    \A v \in ValuesSeen(ms, metric) \cup Range(xs) :
        Occurrences(xs, v) = ReplicaOccurrences(ms, metric, v)

(***************************************************************************)
(* C10: the percentile a replica group reports for TTFT, TPOT and ITL is   *)
(* the percentile of the multiset union of the raw samples of its valid    *)
(* replicas: every observation of every valid replica is in the combined   *)
(* list exactly once, none of an invalid file is, and the reported value   *)
(* is the R-7 value of that list (None when it is empty), not a value      *)
(* derived from per-replica percentiles.                                   *)
(***************************************************************************)
C10_PercentileOfUnion ==
    (gpc = "done" /\ aggregated.tag = "row") =>
        LET ms == ReplicaMetrics
        IN  \A metric \in Metrics :
                /\ IsUnionOf(Combined(metric), ms, metric)
                /\ Reported(metric) =
                       IF Combined(metric) = <<>> THEN None
                       ELSE Float(R7(Combined(metric), P99))

C10_Witness ==
    /\ gpc = "done"
    /\ aggregated.tag = "row"
    /\ Len(group_files) = 2
    /\ Len(group_raw_ttfts) = 4
    /\ aggregated.p99_ttft_ms.tag = "float"
    /\ aggregated.p99_itl_ms.tag = "float"
    /\ aggregated.p99_tpot_ms = None
    /\ LET ms == ReplicaMetrics
       IN  \A i \in 1..2 :
               /\ ms[i] # None
               /\ RawSamples(ms[i], "ttft") # <<>>
               /\ aggregated.p99_ttft_ms # ReplicaP99(ms[i], "ttft")

(***************************************************************************)
(* Vocabulary of the scalar properties.  The scalars of the model are      *)
(* whole numbers, so their sums are taken over the integers.               *)
(***************************************************************************)
\* the metrics of the valid replicas of the group, in file order
ValidMetrics == SelectSeq(ReplicaMetrics, LAMBDA m : m # None)

Reporting(scalars) == SelectSeq(scalars, LAMBDA t : t # None)

ThroughputsOf(ms) == [i \in 1..Len(ms) |-> ms[i].request_throughput]

RatesOf(ms) == [i \in 1..Len(ms) |-> ms[i].request_rate]

MeanTtftsOf(ms) == [i \in 1..Len(ms) |-> ms[i].mean_ttft_ms]

MeanTpotsOf(ms) == [i \in 1..Len(ms) |-> ms[i].mean_tpot_ms]

RECURSIVE IntSum(_)
IntSum(scalars) ==
    IF scalars = <<>> THEN 0 ELSE FloorInt(Head(scalars).v) + IntSum(Tail(scalars))

\* the sum of whole-number scalars
SumOf(scalars) == Float(FromInt(IntSum(scalars)))

\* their arithmetic mean: the exact sum divided by the count, rounded once
AverageOf(scalars) == Float(FDivInt(FromInt(IntSum(scalars)), Len(scalars)))

BothAggregated == gpc = "both" /\ ValidMetrics # <<>>

(***************************************************************************)
(* C11: in both grouped aggregators the combined request_throughput of a   *)
(* replica group is the sum of the request_throughput of its valid         *)
(* replicas (2.0 and 3.0 give 5.0).                                        *)
(***************************************************************************)
C11_ThroughputIsSum ==
    (BothAggregated /\ Reporting(ThroughputsOf(ValidMetrics)) = ThroughputsOf(ValidMetrics))
        => /\ aggregated.tag = "row"
           /\ aggregated.request_throughput = SumOf(ThroughputsOf(ValidMetrics))
           /\ collect_dp_result.tag = "row"
           /\ collect_dp_result.request_throughput = SumOf(ThroughputsOf(ValidMetrics))

C11_Witness ==
    /\ gpc = "both"
    /\ Len(group_files) = 2
    /\ ThroughputsOf(ValidMetrics) = <<Float(FromInt(2)), Float(FromInt(3))>>
    /\ aggregated.tag = "row"
    /\ aggregated.request_throughput = Float(FromInt(5))
    /\ collect_dp_result.tag = "row"
    /\ collect_dp_result.request_throughput = Float(FromInt(5))

(***************************************************************************)
(* C12: in both grouped aggregators the combined request_rate of a replica *)
(* group is the sum of the request_rate of its valid replicas.             *)
(***************************************************************************)
C12_RateIsSum ==
    (BothAggregated /\ aggregated.tag = "row" /\ collect_dp_result.tag = "row")
        => /\ collect_dp_result.request_rate = SumOf(RatesOf(ValidMetrics))
           /\ aggregated.request_rate = SumOf(RatesOf(ValidMetrics))

(***************************************************************************)
(* C13: when every valid replica of a group reports the scalar, the        *)
(* combined mean_ttft_ms and mean_tpot_ms are the unweighted arithmetic    *)
(* mean of the replicas' values (100.0 and 120.0 give 110.0), in both      *)
(* aggregators, however many requests each replica served.                 *)
(***************************************************************************)
AllReported(ms) ==
    /\ Reporting(ThroughputsOf(ms)) = ThroughputsOf(ms)
    /\ Reporting(MeanTtftsOf(ms)) = MeanTtftsOf(ms)
    /\ Reporting(MeanTpotsOf(ms)) = MeanTpotsOf(ms)

C13_MeanIsUnweightedAverage ==
    (BothAggregated /\ AllReported(ValidMetrics))
        => /\ aggregated.tag = "row"
           /\ aggregated.mean_ttft_ms = AverageOf(MeanTtftsOf(ValidMetrics))
           /\ aggregated.mean_tpot_ms = AverageOf(MeanTpotsOf(ValidMetrics))
           /\ collect_dp_result.tag = "row"
           /\ collect_dp_result.mean_ttft_ms = AverageOf(MeanTtftsOf(ValidMetrics))
           /\ collect_dp_result.mean_tpot_ms = AverageOf(MeanTpotsOf(ValidMetrics))

\* the replica with the mean of 120 served twice the requests of the other
C13_Witness ==
    /\ gpc = "both"
    /\ Len(group_files) = 2
    /\ MeanTtftsOf(ValidMetrics) = <<Float(FromInt(100)), Float(FromInt(120))>>
    /\ Len(ValidMetrics[1].raw_ttfts) = 1
    /\ Len(ValidMetrics[2].raw_ttfts) = 2
    /\ aggregated.tag = "row"
    /\ aggregated.mean_ttft_ms = Float(FromInt(110))
    /\ collect_dp_result.tag = "row"
    /\ collect_dp_result.mean_ttft_ms = Float(FromInt(110))

(***************************************************************************)
(* C14: a replica that lacks a scalar (mean_ttft_ms, mean_tpot_ms or       *)
(* request_throughput is None) is left out of that aggregate only: no      *)
(* error is raised, the group's row is produced, and the aggregate is the  *)
(* value over the replicas that report the scalar.                         *)
(***************************************************************************)
C14_MissingScalarExcluded ==
    BothAggregated
        => /\ aggregated.tag = "row"
           /\ collect_dp_result.tag = "row"
           /\ Reporting(MeanTtftsOf(ValidMetrics)) # <<>>
                  => /\ aggregated.mean_ttft_ms
                            = AverageOf(Reporting(MeanTtftsOf(ValidMetrics)))
                     /\ collect_dp_result.mean_ttft_ms
                            = AverageOf(Reporting(MeanTtftsOf(ValidMetrics)))

(***************************************************************************)
(* C21: when no valid replica of a group reports mean_ttft_ms (or          *)
(* mean_tpot_ms), the combined mean of the group is None in both grouped   *)
(* aggregators, never 0 and never an error, and the two aggregators give   *)
(* the same combined means for the same group.                             *)
(***************************************************************************)
C21_NoMeanIsNone ==
    (BothAggregated /\ Reporting(ThroughputsOf(ValidMetrics)) = ThroughputsOf(ValidMetrics))
        => /\ aggregated.tag = "row"
           /\ collect_dp_result.tag = "row"
           /\ Reporting(MeanTtftsOf(ValidMetrics)) = <<>>
                  => /\ aggregated.mean_ttft_ms = None
                     /\ collect_dp_result.mean_ttft_ms = None
           /\ Reporting(MeanTpotsOf(ValidMetrics)) = <<>>
                  => /\ aggregated.mean_tpot_ms = None
                     /\ collect_dp_result.mean_tpot_ms = None
           /\ aggregated.mean_ttft_ms = collect_dp_result.mean_ttft_ms
           /\ aggregated.mean_tpot_ms = collect_dp_result.mean_tpot_ms

(***************************************************************************)
(* Vocabulary of the ingestion property                                    *)
(***************************************************************************)
\* the numbers of a JSON array, in order: true, false, null, strings and
\* lists are no numbers
NumericEntries(xs) == SelectSeq(xs, LAMBDA t : t.tag = "float")

\* seconds to milliseconds
Milliseconds(xs) == [i \in 1..Len(xs) |-> FMul(xs[i].v, FromInt(1000))]

\* the numbers of an itls array with its lists opened one level
RECURSIVE FlattenedNumbers(_)
FlattenedNumbers(items) ==
    IF items = <<>> THEN <<>>
    ELSE (IF Head(items).tag = "list" THEN NumericEntries(Head(items).items)
          ELSE NumericEntries(<<Head(items)>>)) \o FlattenedNumbers(Tail(items))

(***************************************************************************)
(* C16: the samples handed to calculate_percentile for ttfts, tpots and    *)
(* itls are exactly the numeric entries of the source array, in source     *)
(* order (itls flattened one level), each multiplied by 1000 once; every   *)
(* entry that is not a number is dropped.                                  *)
(***************************************************************************)
C16_IngestionMap ==
    (gpc = "done" /\ Len(group_files) = 1 /\ aggregated.tag = "row")
        => /\ group_raw_ttfts = Milliseconds(NumericEntries(group_files[1].ttfts))
           /\ group_raw_tpots = Milliseconds(NumericEntries(group_files[1].tpots))
           /\ group_raw_itls = Milliseconds(FlattenedNumbers(group_files[1].itls))

(***************************************************************************)
(* Vocabulary of the directory properties                                  *)
(***************************************************************************)
\* the script that has just run; what it set stays as it is afterwards
GroupedRan == dpc = "grouped"

CollectDpRan == dpc = "collect_dp"

AllRan == dpc = "end"

\* a result file that can be read and has a numeric request_rate
Usable(f) == f.readable /\ f.request_rate.tag = "float"

UsableFiles == SelectSeq(directory, LAMBDA file : Usable(file.content))

\* the name up to its last "-", the whole name when it has none
KeyOf(name) ==
    IF "-" \notin Range(name) THEN name
    ELSE CHOOSE key \in {SubSeq(name, 1, k) : k \in 0..Len(name)} :
             \E suffix \in {SubSeq(name, k, Len(name)) : k \in 1..(Len(name) + 1)} :
                 /\ name = key \o <<"-">> \o suffix
                 /\ "-" \notin Range(suffix)

\* groups is a partition of the files, keyed by KeyOf
IsPartitionByKey(groups, files) ==
    /\ \A g, h \in 1..Len(groups) : groups[g].base_name = groups[h].base_name => g = h
    /\ \A g \in 1..Len(groups) :
           /\ groups[g].files # <<>>
           /\ \A k \in 1..Len(groups[g].files) :
                  /\ KeyOf(groups[g].files[k].name) = groups[g].base_name
                  /\ \E i \in 1..Len(files) : files[i] = groups[g].files[k]
    /\ \A i \in 1..Len(files) :
           Cardinality({<<g, k>> \in (1..Len(groups)) \X (1..Len(files)) :
                           k <= Len(groups[g].files) /\ groups[g].files[k] = files[i]}) = 1

RowsAscending(rows) ==
    \A i, j \in 1..Len(rows) :
        i < j => FLeq(rows[i].request_rate.v, rows[j].request_rate.v)

\* rows holds exactly one row for each of names
OneRowEach(rows, names) ==
    /\ Len(rows) = Cardinality(names)
    /\ {rows[i].filename : i \in 1..Len(rows)} = names

NamesOf(files) == {files[i].name : i \in 1..Len(files)}

KeysOf(files) == {KeyOf(files[i].name) : i \in 1..Len(files)}

\* the names of the rows of the groups of files
GroupNamesOf(files) == {key \o <<" (combined)">> : key \in KeysOf(files)}

(***************************************************************************)
(* Vocabulary of C15: a metric by the array of the result file, the p99    *)
(* column of the tables and the p99 column of the grouped output           *)
(***************************************************************************)
LatencyMetrics ==
    {[array |-> "ttfts", p99 |-> "p99_ttft_ms", output |-> "p99_ttft"],
     [array |-> "tpots", p99 |-> "p99_tpot_ms", output |-> "p99_tpot"],
     [array |-> "itls",  p99 |-> "p99_itl_ms",  output |-> "p99_itl"]}

MainRan == dpc = "main"

\* none of files holds a sample of the metric
NoSamples(files, metric) ==
    \A i \in 1..Len(files) : FlattenedNumbers(files[i].content[metric.array]) = <<>>

\* None in a dict, None or NaN in a frame, nothing in a CSV field
IsMissing(x) == x \in {None, NaN, EmptyField}

IsNumeric(x) == x.tag = "float"

\* the usable files behind the row named filename of an ungrouped table
FilesOfRow(filename) == SelectSeq(UsableFiles, LAMBDA file : file.name = filename)

\* the usable files behind the row named filename of a grouped table
FilesOfGroupRow(filename) ==
    SelectSeq(UsableFiles, LAMBDA file : KeyOf(file.name) \o <<" (combined)">> = filename)

\* a row made from files without samples of a metric has no p99 of it, and
\* has its means
MissingWithMeans(row, files) ==
    /\ IsNumeric(row.mean_ttft_ms)
    /\ IsNumeric(row.mean_tpot_ms)
    /\ \A metric \in LatencyMetrics :
           NoSamples(files, metric)
               => /\ IsMissing(row[metric.p99])
                  /\ row[metric.p99] # Float(FZero)

\* the first row of rows at the rate of rows[i] is rows[i]
FirstAtRate(rows, i) ==
    \A j \in 1..(i - 1) : rows[j].request_rate # rows[i].request_rate

\* x and y differ by 0.005 at most
Near(x, y) ==
    /\ FLeq(FSub(x, y), Dec(5, 1000))
    /\ FLeq(FSub(y, x), Dec(5, 1000))

\* the rows of the grouped output that stand for the rate of row
OutputRowsOf(output, row) ==
    {j \in 1..Len(output) : Near(output[j].request_rate.v, row.request_rate.v)}

\* in the grouped output, the cells of dataset d drawn from row are missing
\* where row is, and hold the means
CarriedToOutput(output, row, d) ==
    LET drawn == OutputRowsOf(output, row)
    IN  /\ drawn # {}
        /\ \A j \in drawn :
               /\ IsNumeric(output[j].cells[d]["mean_ttft"])
               /\ IsNumeric(output[j].cells[d]["mean_tpot"])
               /\ \A metric \in LatencyMetrics :
                      IsMissing(row[metric.p99])
                          => /\ IsMissing(output[j].cells[d][metric.output])
                             /\ output[j].cells[d][metric.output] # Float(FZero)

(***************************************************************************)
(* C15: when a file, or every file of a replica group, has no sample of a  *)
(* metric, the p99 entry of its row is a missing value - None or NaN in    *)
(* the returned table, an empty field in the directory's CSV and in the    *)
(* combined CSV, None or NaN or an empty field in the row grouped by       *)
(* request rate - and never 0, while mean_ttft and mean_tpot of the row    *)
(* are still numbers.                                                      *)
(***************************************************************************)
C15_EmptyRawIsMissing ==
    (MainRan /\ main_output.tag = "written") =>
        /\ \A i \in 1..Len(standard_table.rows) :
               /\ MissingWithMeans(standard_table.rows[i],
                                   FilesOfRow(standard_table.rows[i].filename))
               /\ MissingWithMeans(main_output.lmcache_summary[i],
                                   FilesOfRow(standard_table.rows[i].filename))
               /\ MissingWithMeans(main_output.combined_summary[i],
                                   FilesOfRow(standard_table.rows[i].filename))
               /\ FirstAtRate(standard_table.rows, i)
                      => /\ CarriedToOutput(main_output.grouped.result_df,
                                            standard_table.rows[i], 1)
                         /\ CarriedToOutput(main_output.grouped.csv,
                                            standard_table.rows[i], 1)
        /\ \A i \in 1..Len(grouped_table.rows) :
               /\ MissingWithMeans(grouped_table.rows[i],
                                   FilesOfGroupRow(grouped_table.rows[i].filename))
               /\ MissingWithMeans(main_output.dp_lmcache_g4_summary[i],
                                   FilesOfGroupRow(grouped_table.rows[i].filename))
               /\ MissingWithMeans(main_output.combined_summary[Len(standard_table.rows) + i],
                                   FilesOfGroupRow(grouped_table.rows[i].filename))
               /\ FirstAtRate(grouped_table.rows, i)
                      => /\ CarriedToOutput(main_output.grouped.result_df,
                                            grouped_table.rows[i], 2)
                         /\ CarriedToOutput(main_output.grouped.csv,
                                            grouped_table.rows[i], 2)

\* a file without ttfts beside one with ttfts, and a group of two replicas
\* without any: the column holds NaN, the CSV an empty field
C15_Witness ==
    /\ MainRan
    /\ main_output.tag = "written"
    /\ Len(directory) = 3
    /\ \E i \in 1..Len(standard_table.rows) :
           /\ NoSamples(FilesOfRow(standard_table.rows[i].filename),
                        [array |-> "ttfts", p99 |-> "p99_ttft_ms", output |-> "p99_ttft"])
           /\ standard_table.rows[i].p99_ttft_ms = NaN
           /\ main_output.lmcache_summary[i].p99_ttft_ms = EmptyField
    /\ \E i \in 1..Len(grouped_table.rows) :
           /\ Len(FilesOfGroupRow(grouped_table.rows[i].filename)) = 2
           /\ NoSamples(FilesOfGroupRow(grouped_table.rows[i].filename),
                        [array |-> "ttfts", p99 |-> "p99_ttft_ms", output |-> "p99_ttft"])
           /\ IsMissing(grouped_table.rows[i].p99_ttft_ms)
           /\ \E j \in 1..Len(main_output.grouped.csv) :
                  /\ main_output.grouped.csv[j].cells[2]["p99_ttft"] = EmptyField
                  /\ main_output.grouped.csv[j].cells[2]["mean_ttft"] = Float(FromInt(100))

(***************************************************************************)
(* C17: a result file that cannot be read, or whose request_rate is        *)
(* missing, is skipped, and every script gives for the directory what it   *)
(* gives for the directory without its bad files.                          *)
(***************************************************************************)
C17_BadFilesAreSkipped ==
    AllRan =>
        /\ directory_table = process_directory(UsableFiles)
        /\ standard_table = process_standard_files(UsableFiles, "lmcache")
        /\ grouped_table = process_grouped_files(UsableFiles, "dp_lmcache_g4")
        /\ collect_dp_table = collect_dp_process_all_vllm_files(UsableFiles)
        /\ collect_table = collect_process_all_vllm_files(UsableFiles)

\* the usable files of one group all ran at one request_rate
OneRatePerGroup(groups) ==
    \A g \in 1..Len(groups) :
        \A i, j \in 1..Len(groups[g].files) :
            (Usable(groups[g].files[i].content) /\ Usable(groups[g].files[j].content))
                => groups[g].files[i].content.request_rate
                       = groups[g].files[j].content.request_rate

(***************************************************************************)
(* C18 as stated: replica grouping is a partition keyed by base name, and  *)
(* files of different workloads, such as files of different request        *)
(* rates, are never merged into one group.                                 *)
(***************************************************************************)
C18_DifferentRatesNeverMerged ==
    /\ GroupedRan => /\ IsPartitionByKey(file_groups, directory)
                     /\ OneRatePerGroup(file_groups)
    /\ CollectDpRan => /\ IsPartitionByKey(collect_dp_groups, directory)
                       /\ OneRatePerGroup(collect_dp_groups)

(***************************************************************************)
(* C18 amended: replica grouping is a partition keyed by base name: each   *)
(* discovered file is in exactly one group, whose key is the filename up   *)
(* to its last "-" (the whole filename without one), so two files are in   *)
(* the same group exactly when they share that base name, whatever         *)
(* request_rate they hold; in both grouped aggregators.                    *)
(***************************************************************************)
C18_GroupsPartitionByBaseName ==
    /\ GroupedRan => IsPartitionByKey(file_groups, directory)
    /\ CollectDpRan => IsPartitionByKey(collect_dp_groups, directory)

\* a-8000.json and a-8001.json merged, a-b-8000.json apart from them
C18_Witness ==
    /\ AllRan
    /\ Len(directory) = 3
    /\ Len(file_groups) = 2
    /\ Len(collect_dp_groups) = 2
    /\ \E g \in 1..2 :
           /\ file_groups[g].base_name = <<"a">>
           /\ Len(file_groups[g].files) = 2
           /\ ~OneRatePerGroup(file_groups)
    /\ \E g \in 1..2 :
           /\ file_groups[g].base_name = <<"a", "-", "b">>
           /\ Len(file_groups[g].files) = 1

(***************************************************************************)
(* C19: every table returned by process_directory, process_standard_files, *)
(* process_grouped_files and data_collect_dp.process_all_vllm_files has    *)
(* its rows in ascending request_rate order and holds exactly one row per  *)
(* valid file (ungrouped) or per group with a valid file (grouped), and    *)
(* none for an invalid file or an all-invalid group.                       *)
(***************************************************************************)
C19_TablesSortedOneRowEach ==
    AllRan =>
        /\ directory_table.tag = "table"
               => /\ RowsAscending(directory_table.rows)
                  /\ OneRowEach(directory_table.rows, NamesOf(UsableFiles))
        /\ standard_table.tag = "table"
               => /\ RowsAscending(standard_table.rows)
                  /\ OneRowEach(standard_table.rows, NamesOf(UsableFiles))
        /\ grouped_table.tag = "table"
               => /\ RowsAscending(grouped_table.rows)
                  /\ OneRowEach(grouped_table.rows, GroupNamesOf(UsableFiles))
        /\ collect_dp_table.tag = "table"
               => /\ RowsAscending(collect_dp_table.rows)
                  /\ OneRowEach(collect_dp_table.rows, GroupNamesOf(UsableFiles))

\* glob gave the file at rate 2 before the one at rate 1, and a bad file
C19_Witness ==
    /\ AllRan
    /\ Len(directory) = 3
    /\ Len(UsableFiles) = 2
    /\ Cardinality(KeysOf(UsableFiles)) = 2
    /\ FCmp(UsableFiles[2].content.request_rate.v, UsableFiles[1].content.request_rate.v) < 0
    /\ \A table \in {directory_table, standard_table, grouped_table, collect_dp_table} :
           /\ table.tag = "table"
           /\ Len(table.rows) = 2
           /\ table.rows[1].request_rate = Float(FromInt(1))
           /\ table.rows[2].request_rate = Float(FromInt(2))

(***************************************************************************)
(* C20: a directory with no usable result file - no JSON file at all, or   *)
(* only files extract_vllm_metrics rejects - is reported as None by every  *)
(* processing function, and the main block that consumes the return value  *)
(* goes on without raising.                                                *)
(***************************************************************************)
C20_NoDataIsNone ==
    (AllRan /\ UsableFiles = <<>>)
        => /\ directory_table = None
           /\ standard_table = None
           /\ grouped_table = None
           /\ collect_dp_table = None
           /\ collect_dp_outcome = [tag |-> "completed"]

(***************************************************************************)
(* Vocabulary of C22                                                       *)
(***************************************************************************)
\* how many lines of file have the text
LinesWith(file, text) == Cardinality({i \in 1..Len(file) : file[i].text = text})

TextsOf(file) == {file[i].text : i \in 1..Len(file)}

\* every line occurrence of whole is in exactly one of part1 and part2:
\* the parts together hold each text as often as whole does
IsSplitOf(part1, part2, whole) ==
    \A text \in TextsOf(whole) \cup TextsOf(part1) \cup TextsOf(part2) :
        LinesWith(part1, text) + LinesWith(part2, text) = LinesWith(whole, text)

\* part1 has the larger half of n lines, part2 the rest
HalvesOf(part1, part2, n) ==
    /\ Len(part1) = (n + 1) \div 2
    /\ Len(part2) = n \div 2
    /\ Len(part1) - Len(part2) \in {0, 1}

\* the lists part1_lines and part2_lines split the lines read
ListsSplitInput ==
    spc \in {"split", "written"}
        => /\ HalvesOf(part1_lines, part2_lines, Len(input_file))
           /\ IsSplitOf(part1_lines, part2_lines, input_file)

\* the two files written split the lines of the input file
FilesSplitInput ==
    spc = "written"
        => /\ HalvesOf(output_file_1, output_file_2, Len(input_file))
           /\ IsSplitOf(output_file_1, output_file_2, input_file)

(***************************************************************************)
(* C22: split_dataset partitions the input lines: of n lines part1 holds   *)
(* ceil(n/2) and part2 the remaining floor(n/2), every line occurrence of  *)
(* the input is in exactly one of the two parts, nothing dropped or        *)
(* duplicated, and the sizes of the parts differ by 1 at most; for the     *)
(* lists the script builds and for the two files it writes from them.      *)
(***************************************************************************)
C22_SplitPartitionsLines == ListsSplitInput /\ FilesSplitInput

====
